---------------------------- MODULE Spec2Model ----------------------------
(***************************************************************************)
(* A model of the property codec of flatgeobuf-convert (package props):    *)
(* the packed property payload, its lazily built offset table, the typed   *)
(* accessors and the copy-on-write promotion of an immutable property set. *)
(*                                                                         *)
(* Byte positions are the Go positions (0-based); a byte buffer is a TLA+  *)
(* sequence, so the byte at Go position i of buffer d is d[i + 1].         *)
(*                                                                         *)
(* A Go run-time panic (index or slice bounds out of range) is modelled as *)
(* the outcome "panic" of the operation in which it is raised; the fields  *)
(* assigned before the panic keep their new values.  A panic unwinds the   *)
(* caller, so no further operation is applied after one.                   *)
(***************************************************************************)
EXTENDS Integers, Sequences, FiniteSets, TLC

(***************************************************************************)
(* Bounds of the model.                                                    *)
(***************************************************************************)
\* Longest initial payload handed to PropsFromFlat, in bytes.
MaxLen == 10
\* Longest raw byte slice enumerated exhaustively by the parsing
\* specification SpecParse.
MaxRawLen == 7

(***************************************************************************)
(* Program constants.                                                      *)
(***************************************************************************)
\* flatbuffers.SizeUint16: the width of the column index tag of a record.
SizeUint16 == 2
\* flatbuffers.SizeUint32: the width of the length prefix of a
\* variable-width value.
SizeUint32 == 4
\* math.MaxInt on a build with a 32-bit int (the build on which the overflow
\* guard of sizeOfValue can fail at all).
MaxInt == 2147483647
\* math.MaxUint16
MaxUint16 == 65535

Nil == "nil"
NilLookup == <<>>

(***************************************************************************)
(* Column types (flat.ColumnType).  The zero value of the enumeration is   *)
(* Byte: it is what Schema.Type and columnType return for a column index   *)
(* that is out of range.  "Unknown" stands for a tag outside the closed    *)
(* enumeration.                                                            *)
(***************************************************************************)
FixedTypes == {"Byte", "UByte", "Bool", "Short", "UShort", "Int", "UInt",
               "Long", "ULong", "Float", "Double"}
VarTypes == {"String", "Json", "DateTime", "Binary"}
ColumnTypes == FixedTypes \cup VarTypes
ZeroColumnType == "Byte"

SignedTypes == {"Byte", "Short", "Int", "Long"}

\* The byte width of a fixed-width column type (flatbuffers.SizeBool ...
\* flatbuffers.SizeFloat64), as sizeOfValue returns it.
FixedSize(t) ==
    CASE t \in {"Bool", "Byte", "UByte"} -> 1
      [] t \in {"Short", "UShort"} -> 2
      [] t \in {"Int", "UInt", "Float"} -> 4
      [] t \in {"Long", "ULong", "Double"} -> 8

(***************************************************************************)
(* Little-endian encoding, as flatbuffers.GetUintN / WriteUintN do it.     *)
(***************************************************************************)
At(d, i) == d[i + 1]

\* Go's d[lo:hi]
Slice(d, lo, hi) == SubSeq(d, lo + 1, hi)

\* d with the bytes of w written at Go position i (all inside d).
Overwrite(d, i, w) ==
    [k \in 1..Len(d) |-> IF k > i /\ k <= i + Len(w) THEN w[k - i] ELSE d[k]]

RECURSIVE EncodeLE(_, _)
EncodeLE(v, w) ==
    IF w = 0 THEN <<>> ELSE <<v % 256>> \o EncodeLE(v \div 256, w - 1)

RECURSIVE DecodeUnsigned(_)
DecodeUnsigned(b) ==
    IF Len(b) = 0 THEN 0 ELSE b[1] + 256 * DecodeUnsigned(Tail(b))

RECURSIVE DecodeSigned(_)
DecodeSigned(b) ==
    IF Len(b) = 1 THEN (IF b[1] >= 128 THEN b[1] - 256 ELSE b[1])
    ELSE b[1] + 256 * DecodeSigned(Tail(b))

GetUint16(d, i) == DecodeUnsigned(Slice(d, i, i + SizeUint16))
GetUint32(d, i) == DecodeUnsigned(Slice(d, i, i + SizeUint32))

\* The value a typed getter decodes from the bytes b of a fixed-width value.
DecodeFixed(t, b) ==
    IF t = "Bool" THEN b[1] # 0
    ELSE IF t \in SignedTypes THEN DecodeSigned(b)
    ELSE DecodeUnsigned(b)

\* The bytes a typed setter writes for value v of fixed-width type t.
EncodeFixed(t, v) ==
    IF t = "Bool" THEN (IF v THEN <<1>> ELSE <<0>>)
    ELSE EncodeLE(v, FixedSize(t))

(***************************************************************************)
(* State.                                                                  *)
(***************************************************************************)
VARIABLES
    schema,   \* the columns of the schema: a sequence of [name, type]
    ext,      \* the caller's byte slice handed to PropsFromFlat
    p,        \* the property set under test (type Props)
    q,        \* a second property set built by PropsFromFlat over ext
    last,     \* the last call and what it returned
    schemaName2Index,  \* the field name2Index of the local schema (type Schema)
    held,     \* a slice or string a getter of p has returned to the caller
    indexing  \* the calls of Schema.Index in progress and the maps they made

vars == <<schema, ext, p, q, last, schemaName2Index, held, indexing>>


(***************************************************************************)
(* A property set (type Props) is a record                                 *)
(*   fast    : TRUE iff fastSchema is set (the set was made by NewProps),  *)
(*   data    : the bytes of the buffer, p.data.Bytes(),                    *)
(*   lookup  : the offset table, one entry per column; NilLookup (the      *)
(*             empty sequence) while the slice is nil: the table is only   *)
(*             ever made for a column index in range, so a table that was  *)
(*             made has at least one entry,                                *)
(*   mutable : the mutable flag,                                           *)
(*   shared  : TRUE iff the buffer's backing array is the caller's slice.  *)
(* P ranges over such records, sch over schemas.                           *)
(***************************************************************************)

\* Props.numColumns
numColumns(sch) == Len(sch)

\* Props.columnType: Schema.Type for a local schema, Columns(&obj, col) and
\* obj.Type() for a foreign one; both leave the zero value of
\* flat.ColumnType when col is out of range.
columnType(sch, col) ==
    IF 0 <= col /\ col < Len(sch) THEN sch[col + 1].type ELSE ZeroColumnType

\* Props.sizeOfValue: [sz, err]
sizeOfValue(sch, d, col, pos) ==
    LET t == columnType(sch, col) IN
    IF t \in FixedTypes THEN [sz |-> FixedSize(t), err |-> Nil]
    ELSE IF t \in VarTypes THEN
        LET rem == Len(d) - pos IN
        IF rem > SizeUint32 THEN
            LET n == GetUint32(d, pos) IN
            IF n <= MaxInt - SizeUint32
            THEN [sz |-> n + SizeUint32, err |-> Nil]
            ELSE [sz |-> 0, err |-> "errStringSizeOverflowsInt"]
        ELSE [sz |-> 0, err |-> "errStringSizeCorrupt"]
    ELSE [sz |-> 0, err |-> "errUnknownColumnType"]

\* The loop of Props.index2Index without the test i+sz > p.data.Len().
RECURSIVE buildLookupUnchecked(_, _, _, _)
buildLookupUnchecked(sch, d, i, lk) ==
    IF ~(i < Len(d) - SizeUint16) THEN lk
    ELSE
        LET j == GetUint16(d, i)
            i2 == i + SizeUint16
        IN  IF j >= numColumns(sch) THEN buildLookupUnchecked(sch, d, i2, lk)
            ELSE
                LET r == sizeOfValue(sch, d, j, i2) IN
                IF r.err # Nil THEN lk
                ELSE buildLookupUnchecked(sch, d, i2 + r.sz,
                                          [lk EXCEPT ![j + 1] = i2])

\* The loop of Props.index2Index going on past a record that does not fit
\* (continue in place of break).
RECURSIVE buildLookupSkip(_, _, _, _)
buildLookupSkip(sch, d, i, lk) ==
    IF ~(i < Len(d) - SizeUint16) THEN lk
    ELSE
        LET j == GetUint16(d, i)
            i2 == i + SizeUint16
        IN  IF j >= numColumns(sch) THEN buildLookupSkip(sch, d, i2, lk)
            ELSE
                LET r == sizeOfValue(sch, d, j, i2) IN
                IF r.err # Nil \/ i2 + r.sz > Len(d)
                THEN buildLookupSkip(sch, d, i2, lk)
                ELSE buildLookupSkip(sch, d, i2 + r.sz,
                                     [lk EXCEPT ![j + 1] = i2])

\* The loop of Props.index2Index that fills the offset table lk, reading
\* the buffer d from position i on.
RECURSIVE buildLookup(_, _, _, _)
buildLookup(sch, d, i, lk) ==
    IF ~(i < Len(d) - SizeUint16) THEN lk
    ELSE
        LET j == GetUint16(d, i)
            i2 == i + SizeUint16
        IN  IF j >= numColumns(sch) THEN buildLookup(sch, d, i2, lk)
            ELSE
                LET r == sizeOfValue(sch, d, j, i2) IN
                IF r.err # Nil \/ i2 + r.sz > Len(d) THEN lk
                ELSE buildLookup(sch, d, i2 + r.sz, [lk EXCEPT ![j + 1] = i2])

\* Props.index2Index: [P, pos, err]; P is the set afterwards (the offset
\* table is built on the first call on an immutable set).
index2Index(sch, P, col) ==
    LET n == numColumns(sch) IN
    IF col < 0 \/ col >= n THEN [P |-> P, pos |-> 0, err |-> "ErrNoColumn"]
    ELSE IF P.lookup # NilLookup THEN [P |-> P, pos |-> P.lookup[col + 1], err |-> Nil]
    ELSE IF P.mutable THEN [P |-> P, pos |-> 0, err |-> Nil]
    ELSE
        LET lk == buildLookup(sch, P.data, 0, [k \in 1..n |-> 0]) IN
        [P |-> [P EXCEPT !.lookup = lk], pos |-> lk[col + 1], err |-> Nil]

\* Props.mutate without the copy: the buffer stays on the caller's slice.
mutateNoCopy(P) ==
    IF ~P.mutable THEN [P EXCEPT !.mutable = TRUE] ELSE P

\* Props.mutate that flips the flag on every call.
mutateToggle(P) == [P EXCEPT !.mutable = ~P.mutable, !.shared = FALSE]

\* Props.mutate: duplicate the buffer on the first write.
mutate(P) ==
    IF ~P.mutable THEN [P EXCEPT !.mutable = TRUE, !.shared = FALSE] ELSE P

\* Props.check without the comparison.
checkNothing(sch, col, expectedType) == Nil

\* Props.check
check(sch, col, expectedType) ==
    IF columnType(sch, col) # expectedType THEN "ErrTypeMismatch" ELSE Nil

\* Props.extend: [P, ok, at].  ok is FALSE when the call panics; at is the
\* position the returned slice b[i:] starts at.  Grow reserves capacity and
\* leaves the length of the buffer alone, so b is the buffer as it was: the
\* tag is written at position 0 and holds n, and b[i:] with i = len(b) + 2
\* is out of range.
extend(P, col, n) ==
    IF P.mutable /\ P.lookup = NilLookup
    THEN [P |-> P, ok |-> FALSE, at |-> 0]          \* p.lookup[col] on a nil slice
    ELSE IF Len(P.data) < SizeUint16
    THEN [P |-> P, ok |-> FALSE, at |-> 0]          \* WriteUint16 on a short slice
    ELSE
        LET b == Overwrite(P.data, 0, EncodeLE(n % (MaxUint16 + 1), SizeUint16))
            i == Len(b) + SizeUint16
            P1 == [P EXCEPT !.data = b, !.lookup = [P.lookup EXCEPT ![col + 1] = i]]
        IN  [P |-> P1, ok |-> i <= Len(b), at |-> i]

\* Props.delete
delete(sch, P, col, pos) ==
    LET P1 == mutate(P)
        r == sizeOfValue(sch, P1.data, col, pos)
    IN  IF r.err # Nil THEN P1
        ELSE
            LET b == P1.data
                moved == IF pos + r.sz < Len(b)
                         THEN Overwrite(b, pos - SizeUint16,
                                  Slice(b, pos + r.sz,
                                        Len(b)))
                         ELSE b
            IN  [P1 EXCEPT !.data = Slice(moved, 0, pos - SizeUint16),
                           !.lookup = [P1.lookup EXCEPT ![col + 1] = 0]]

(***************************************************************************)
(* Typed access.  A getter returns [P, out, ret] and a setter [P, out]:    *)
(* P is the set after the call, out is Ok, the error returned, or "panic", *)
(* and ret is <<v>> when the value v is returned and <<>> otherwise.       *)
(***************************************************************************)
Ok == "ok"
NoRet == <<>>

Min(a, b) == IF a < b THEN a ELSE b

\* The write of w one byte ahead of position at.
writeAtBefore(P, at, w) ==
    IF at + Len(w) > Len(P.data) THEN [P |-> P, out |-> "panic"]
    ELSE [P |-> [P EXCEPT !.data = Overwrite(P.data, at - 1, w)], out |-> Ok]

\* b := p.data.Bytes()[at:] followed by a write of the bytes w into b by
\* flatbuffers.WriteXxx (or b[0] = v): out of range unless all of w fits.
writeAt(P, at, w) ==
    IF at + Len(w) > Len(P.data) THEN [P |-> P, out |-> "panic"]
    ELSE [P |-> [P EXCEPT !.data = Overwrite(P.data, at, w)], out |-> Ok]

\* The fixed-width getter that takes the buffer over before it reads, as
\* the setters do.
GetFixedMutating(sch, P, col, t) ==
    LET r == index2Index(sch, mutate(P), col) IN
    IF r.err # Nil THEN [P |-> r.P, out |-> r.err, ret |-> NoRet]
    ELSE IF check(sch, col, t) # Nil
    THEN [P |-> r.P, out |-> "ErrTypeMismatch", ret |-> NoRet]
    ELSE IF r.pos = 0 THEN [P |-> r.P, out |-> "ErrNoValue", ret |-> NoRet]
    ELSE IF r.pos + FixedSize(t) > Len(r.P.data)
    THEN [P |-> r.P, out |-> "panic", ret |-> NoRet]
    ELSE [P |-> r.P, out |-> Ok,
          ret |-> <<DecodeFixed(t, Slice(r.P.data, r.pos, r.pos + FixedSize(t)))>>]

\* The fixed-width getter with the test of the offset ahead of the type
\* check.
GetFixedValueFirst(sch, P, col, t) ==
    LET r == index2Index(sch, P, col) IN
    IF r.err # Nil THEN [P |-> r.P, out |-> r.err, ret |-> NoRet]
    ELSE IF r.pos = 0 THEN [P |-> r.P, out |-> "ErrNoValue", ret |-> NoRet]
    ELSE IF check(sch, col, t) # Nil
    THEN [P |-> r.P, out |-> "ErrTypeMismatch", ret |-> NoRet]
    ELSE IF r.pos + FixedSize(t) > Len(r.P.data)
    THEN [P |-> r.P, out |-> "panic", ret |-> NoRet]
    ELSE [P |-> r.P, out |-> Ok,
          ret |-> <<DecodeFixed(t, Slice(r.P.data, r.pos, r.pos + FixedSize(t)))>>]

\* Props.GetBool, GetByte, GetUByte, GetShort, GetUShort, GetInt, GetUInt,
\* GetLong, GetULong, GetFloat, GetDouble: the getter of fixed-width type t.
GetFixed(sch, P, col, t) ==
    LET r == index2Index(sch, P, col) IN
    IF r.err # Nil THEN [P |-> r.P, out |-> r.err, ret |-> NoRet]
    ELSE IF check(sch, col, t) # Nil
    THEN [P |-> r.P, out |-> "ErrTypeMismatch", ret |-> NoRet]
    ELSE IF r.pos = 0 THEN [P |-> r.P, out |-> "ErrNoValue", ret |-> NoRet]
    ELSE IF r.pos + FixedSize(t) > Len(r.P.data)
    THEN [P |-> r.P, out |-> "panic", ret |-> NoRet]
    ELSE [P |-> r.P, out |-> Ok,
          ret |-> <<DecodeFixed(t, Slice(r.P.data, r.pos, r.pos + FixedSize(t)))>>]

\* The fixed-width setter without the call of mutate.
SetFixedNoMutate(sch, P, col, t, v) ==
    LET r == index2Index(sch, P, col) IN
    IF r.err # Nil THEN [P |-> r.P, out |-> r.err]
    ELSE IF check(sch, col, t) # Nil THEN [P |-> r.P, out |-> "ErrTypeMismatch"]
    ELSE IF r.pos > 0 THEN writeAt(r.P, r.pos, EncodeFixed(t, v))
    ELSE
        LET e == extend(r.P, col, FixedSize(t)) IN
        IF ~e.ok THEN [P |-> e.P, out |-> "panic"]
        ELSE writeAt(e.P, e.at, EncodeFixed(t, v))

\* Props.SetBool ... SetDouble: the setter of fixed-width type t.
SetFixed(sch, P, col, t, v) ==
    LET r == index2Index(sch, P, col) IN
    IF r.err # Nil THEN [P |-> r.P, out |-> r.err]
    ELSE IF check(sch, col, t) # Nil THEN [P |-> r.P, out |-> "ErrTypeMismatch"]
    ELSE
        LET P1 == mutate(r.P) IN
        IF r.pos > 0 THEN writeAt(P1, r.pos, EncodeFixed(t, v))
        ELSE
            LET e == extend(P1, col, FixedSize(t)) IN
            IF ~e.ok THEN [P |-> e.P, out |-> "panic"]
            ELSE writeAt(e.P, e.at, EncodeFixed(t, v))

\* Props.getBinary: the stored bytes of a variable-width value.  The
\* buffer is taken to have no spare capacity (as the one mutate allocates),
\* so b[4:4+n] is out of range when the value does not fit in the buffer.
getBinary(sch, P, col, t) ==
    LET r == index2Index(sch, P, col) IN
    IF r.err # Nil THEN [P |-> r.P, out |-> r.err, ret |-> NoRet]
    ELSE IF check(sch, col, t) # Nil
    THEN [P |-> r.P, out |-> "ErrTypeMismatch", ret |-> NoRet]
    ELSE IF r.pos = 0 THEN [P |-> r.P, out |-> "ErrNoValue", ret |-> NoRet]
    ELSE IF r.pos + SizeUint32 > Len(r.P.data)
    THEN [P |-> r.P, out |-> "panic", ret |-> NoRet]
    ELSE
        LET n == GetUint32(r.P.data, r.pos) IN
        IF n > MaxInt - SizeUint32
        THEN [P |-> r.P, out |-> "errStringSizeOverflowsInt", ret |-> NoRet]
        ELSE IF r.pos + SizeUint32 + n > Len(r.P.data)
        THEN [P |-> r.P, out |-> "panic", ret |-> NoRet]
        ELSE [P |-> r.P, out |-> Ok,
              ret |-> <<Slice(r.P.data, r.pos + SizeUint32, r.pos + SizeUint32 + n)>>]

\* The tail of Props.setBinary: write the length prefix and the value into
\* the slice b that starts at position at (copy writes what fits in b).
putBinary(P, at, value) ==
    IF at + SizeUint32 > Len(P.data) THEN [P |-> P, out |-> "panic"]
    ELSE
        LET room == Len(P.data) - at - SizeUint32
            w == EncodeLE(Len(value), SizeUint32)
                   \o SubSeq(value, 1, Min(Len(value), room))
        IN  [P |-> [P EXCEPT !.data = Overwrite(P.data, at, w)], out |-> Ok]

\* Props.setBinary with the call of mutate ahead of the type check.
setBinaryEager(sch, P, col, t, value) ==
    LET r == index2Index(sch, P, col) IN
    IF r.err # Nil THEN [P |-> r.P, out |-> r.err]
    ELSE IF check(sch, col, t) # Nil
    THEN [P |-> mutate(r.P), out |-> "ErrTypeMismatch"]
    ELSE
        LET P1 == mutate(r.P) IN
        IF r.pos > 0 /\ r.pos + SizeUint32 > Len(P1.data)
        THEN [P |-> P1, out |-> "panic"]
        ELSE IF r.pos > 0 /\ GetUint32(P1.data, r.pos) = Len(value)
        THEN putBinary(P1, r.pos, value)
        ELSE
            LET P2 == IF r.pos > 0 THEN delete(sch, P1, col, r.pos) ELSE P1
                e == extend(P2, col, Len(value))
            IN  IF ~e.ok THEN [P |-> e.P, out |-> "panic"]
                ELSE putBinary(e.P, e.at, value)

\* Props.setBinary
setBinary(sch, P, col, t, value) ==
    LET r == index2Index(sch, P, col) IN
    IF r.err # Nil THEN [P |-> r.P, out |-> r.err]
    ELSE IF check(sch, col, t) # Nil THEN [P |-> r.P, out |-> "ErrTypeMismatch"]
    ELSE
        LET P1 == mutate(r.P) IN
        IF r.pos > 0 /\ r.pos + SizeUint32 > Len(P1.data)
        THEN [P |-> P1, out |-> "panic"]
        ELSE IF r.pos > 0 /\ GetUint32(P1.data, r.pos) = Len(value)
        THEN putBinary(P1, r.pos, value)
        ELSE
            LET P2 == IF r.pos > 0 THEN delete(sch, P1, col, r.pos) ELSE P1
                e == extend(P2, col, Len(value))
            IN  IF ~e.ok THEN [P |-> e.P, out |-> "panic"]
                ELSE putBinary(e.P, e.at, value)

(***************************************************************************)
(* Timestamps.  A time.Time is a record [year, month, day, hour, min, sec, *)
(* nsec, off]: the wall clock fields and the zone offset in seconds east   *)
(* of UTC.  The values passed to SetDateTime are in UTC (off = 0) with a   *)
(* year in 0..9999.                                                        *)
(***************************************************************************)
Time(year, month, day, hour, min, sec, nsec) ==
    [year |-> year, month |-> month, day |-> day, hour |-> hour,
     min |-> min, sec |-> sec, nsec |-> nsec, off |-> 0]

\* ASCII
Ch0 == 48
ChDash == 45
ChT == 84
ChColon == 58
ChZ == 90
ChDot == 46
ChPlus == 43

\* The decimal digits of n, w of them.
RECURSIVE Digits(_, _)
Digits(n, w) ==
    IF w = 0 THEN <<>> ELSE Digits(n \div 10, w - 1) \o <<Ch0 + (n % 10)>>

\* value.Format(time.RFC3339) for a time in UTC: the layout has no
\* fractional seconds, so nsec is not written.
FormatRFC3339(t) ==
    Digits(t.year, 4) \o <<ChDash>> \o Digits(t.month, 2) \o <<ChDash>>
      \o Digits(t.day, 2) \o <<ChT>> \o Digits(t.hour, 2) \o <<ChColon>>
      \o Digits(t.min, 2) \o <<ChColon>> \o Digits(t.sec, 2) \o <<ChZ>>

IsDigit(b) == b >= Ch0 /\ b <= Ch0 + 9

AllDigits(s) == \A k \in 1..Len(s) : IsDigit(s[k])

RECURSIVE ParseUint(_)
ParseUint(s) ==
    IF Len(s) = 0 THEN 0
    ELSE 10 * ParseUint(SubSeq(s, 1, Len(s) - 1)) + (s[Len(s)] - Ch0)

DaysIn(month, year) ==
    IF month = 2
    THEN (IF year % 4 = 0 /\ (year % 100 # 0 \/ year % 400 = 0) THEN 29 ELSE 28)
    ELSE IF month \in {4, 6, 9, 11} THEN 30 ELSE 31

\* The digits of a fractional second, after the dot, as nanoseconds
\* (digits past the ninth are dropped).
FracNanos(s) ==
    LET d == SubSeq(s, 1, Min(Len(s), 9)) IN
    ParseUint(d \o [k \in 1..(9 - Len(d)) |-> Ch0])

\* The length of the longest prefix of s made of digits.
RECURSIVE DigitRun(_)
DigitRun(s) ==
    IF Len(s) = 0 \/ ~IsDigit(s[1]) THEN 0 ELSE 1 + DigitRun(Tail(s))

\* The zone of an RFC 3339 text: [ok, off]
ParseZone(z) ==
    IF z = <<ChZ>> THEN [ok |-> TRUE, off |-> 0]
    ELSE IF Len(z) # 6 THEN [ok |-> FALSE, off |-> 0]
    ELSE IF ~(z[1] \in {ChPlus, ChDash} /\ z[4] = ChColon
              /\ AllDigits(SubSeq(z, 2, 3)) /\ AllDigits(SubSeq(z, 5, 6)))
    THEN [ok |-> FALSE, off |-> 0]
    ELSE
        LET hr == ParseUint(SubSeq(z, 2, 3))
            mm == ParseUint(SubSeq(z, 5, 6))
        IN  IF hr > 23 \/ mm > 59 THEN [ok |-> FALSE, off |-> 0]
            ELSE [ok |-> TRUE,
                  off |-> (IF z[1] = ChDash THEN -1 ELSE 1) * (hr * 60 + mm) * 60]

\* time.Parse(time.RFC3339, s): [ok, t].  A text that is not of the RFC 3339
\* shape is a *time.ParseError.
ParseRFC3339(s) ==
    LET bad == [ok |-> FALSE, t |-> Time(1, 1, 1, 0, 0, 0, 0)] IN
    IF Len(s) < 19 THEN bad
    ELSE IF ~(AllDigits(SubSeq(s, 1, 4)) /\ s[5] = ChDash
              /\ AllDigits(SubSeq(s, 6, 7)) /\ s[8] = ChDash
              /\ AllDigits(SubSeq(s, 9, 10)) /\ s[11] = ChT
              /\ AllDigits(SubSeq(s, 12, 13)) /\ s[14] = ChColon
              /\ AllDigits(SubSeq(s, 15, 16)) /\ s[17] = ChColon
              /\ AllDigits(SubSeq(s, 18, 19)))
    THEN bad
    ELSE
        LET year == ParseUint(SubSeq(s, 1, 4))
            month == ParseUint(SubSeq(s, 6, 7))
            day == ParseUint(SubSeq(s, 9, 10))
            hour == ParseUint(SubSeq(s, 12, 13))
            min == ParseUint(SubSeq(s, 15, 16))
            sec == ParseUint(SubSeq(s, 18, 19))
            rest == SubSeq(s, 20, Len(s))
            frac == IF Len(rest) >= 2 /\ rest[1] = ChDot /\ IsDigit(rest[2])
                    THEN DigitRun(Tail(rest))
                    ELSE 0
            nsec == IF frac > 0 THEN FracNanos(SubSeq(rest, 2, frac + 1)) ELSE 0
            zone == ParseZone(IF frac > 0 THEN SubSeq(rest, frac + 2, Len(rest))
                              ELSE rest)
        IN  IF month < 1 \/ month > 12 \/ day < 1 \/ day > DaysIn(month, year)
               \/ hour > 23 \/ min > 59 \/ sec > 59 \/ ~zone.ok
            THEN bad
            ELSE [ok |-> TRUE,
                  t |-> [Time(year, month, day, hour, min, sec, nsec)
                           EXCEPT !.off = zone.off]]

\* The return of Props.GetDateTime, getBinary having returned r and
\* time.Parse t.
parsedTime(r, t) ==
    IF t.ok THEN [r EXCEPT !.ret = <<t.t>>]
    ELSE [r EXCEPT !.out = "ParseError", !.ret = NoRet]

\* Props.GetDateTime after its call of getBinary, which has returned r.
stringTime(r) ==
    IF r.out # Ok THEN r
    ELSE IF Len(r.ret[1]) = 0 THEN [r EXCEPT !.out = "panic", !.ret = NoRet]   \* &b[0]
    ELSE parsedTime(r, ParseRFC3339(r.ret[1]))

\* Props.GetDateTime
GetDateTime(sch, P, col) == stringTime(getBinary(sch, P, col, "DateTime"))

\* Props.SetDateTime
SetDateTime(sch, P, col, value) ==
    setBinary(sch, P, col, "DateTime", FormatRFC3339(value))

(***************************************************************************)
(* Accessors.  An accessor is named by the type in its name: the eleven    *)
(* fixed-width types, String, Json (GetJSON/SetJSON), Binary, DateTime     *)
(* (a time.Time) and DateTimeString (the text of a DateTime column).       *)
(***************************************************************************)
Accessors == ColumnTypes \cup {"DateTimeString"}

\* The column type an accessor passes to check.
AccType(acc) == IF acc = "DateTimeString" THEN "DateTime" ELSE acc

\* Props.GetString, GetJSON, GetBinary, GetDateTimeString and the
\* fixed-width getters, by accessor.
Get(sch, P, col, acc) ==
    IF acc \in FixedTypes THEN GetFixed(sch, P, col, acc)
    ELSE IF acc = "DateTime" THEN GetDateTime(sch, P, col)
    ELSE getBinary(sch, P, col, AccType(acc))

\* Props.SetString, SetJSON, SetBinary, SetDateTimeString and the
\* fixed-width setters, by accessor.
Set(sch, P, col, acc, v) ==
    IF acc \in FixedTypes THEN SetFixed(sch, P, col, acc, v)
    ELSE IF acc = "DateTime" THEN SetDateTime(sch, P, col, v)
    ELSE setBinary(sch, P, col, AccType(acc), v)

\* Props.Has: [P, ret]
Has(sch, P, index) ==
    LET r == index2Index(sch, P, index) IN
    [P |-> r.P, ret |-> (r.err # Nil /\ r.pos > 0)]

\* Props.Delete: [P, ret]
Delete(sch, P, index) ==
    LET r == index2Index(sch, P, index) IN
    IF r.err = Nil \/ r.pos = 0 THEN [P |-> r.P, ret |-> FALSE]
    ELSE [P |-> delete(sch, r.P, index, r.pos), ret |-> TRUE]

\* The source holds Props.GetValue twice, with two ways of telling a
\* *time.ParseError: a build has the one or the other.
Builds == {"props.go", "errors.go"}

\* The end of the DateTime case of Props.GetValue, GetDateTime having
\* returned r.  In props.go the target of errors.As points to a
\* time.ParseError, which is no error type (Error has a pointer receiver):
\* errors.As panics for every non-nil error.  In errors.go the target points
\* to a *time.ParseError and the text is read when the parse has failed.
dateTimeValue(sch, index, build, r) ==
    IF r.out \in {Ok, "panic"} THEN r
    ELSE IF build = "props.go" THEN [r EXCEPT !.out = "panic"]
    ELSE IF r.out = "ParseError" THEN getBinary(sch, r.P, index, "DateTime")
    ELSE r

\* Props.GetValue: dispatch on the type of the column.
GetValue(sch, P, index, build) ==
    IF columnType(sch, index) = "DateTime"
    THEN dateTimeValue(sch, index, build, GetDateTime(sch, P, index))
    ELSE IF columnType(sch, index) \in FixedTypes
    THEN GetFixed(sch, P, index, columnType(sch, index))
    ELSE IF columnType(sch, index) \in VarTypes
    THEN getBinary(sch, P, index, columnType(sch, index))
    ELSE [P |-> P, out |-> "errInvalidColumnType", ret |-> NoRet]

\* Props.SetValue: dispatch on the run-time type rt of the value.
RuntimeAccessor(rt) ==
    CASE rt = "bool" -> "Bool"
      [] rt = "int8" -> "Byte"
      [] rt = "uint8" -> "UByte"
      [] rt = "int16" -> "Short"
      [] rt = "uint16" -> "UShort"
      [] rt = "int32" -> "Int"
      [] rt = "uint32" -> "UInt"
      [] rt = "int64" -> "Long"
      [] rt = "uint64" -> "ULong"
      [] rt = "float32" -> "Float"
      [] rt = "float64" -> "Double"
      [] rt = "string" -> "String"
      [] rt = "[]byte" -> "Binary"
      [] rt = "time.Time" -> "DateTime"
      [] OTHER -> Nil

SetValue(sch, P, index, rt, v) ==
    IF RuntimeAccessor(rt) = Nil THEN [P |-> P, out |-> "errUnmappable"]
    ELSE Set(sch, P, index, RuntimeAccessor(rt), v)

(***************************************************************************)
(* Name-keyed access.  A name is a sequence of bytes.                      *)
(***************************************************************************)
name2IndexThreshold == 6

\* The columns of sch named name.
Named(sch, name) == {i \in 0..(Len(sch) - 1) : sch[i + 1].name = name}

SetMin(S) == CHOOSE x \in S : \A y \in S : x <= y
SetMax(S) == CHOOSE x \in S : \A y \in S : x >= y

\* Schema.Index: [col, ok].  Below the threshold the scan stops at the
\* first column of that name; otherwise the last one wins.
Index(sch, name) ==
    IF Named(sch, name) = {} THEN [col |-> 0, ok |-> FALSE]
    ELSE IF Len(sch) < name2IndexThreshold
    THEN [col |-> SetMin(Named(sch, name)), ok |-> TRUE]
    ELSE [col |-> SetMax(Named(sch, name)), ok |-> TRUE]

\* The field name2Index of a Schema: made is FALSE while the map is nil,
\* at is the map.
NilMap == [made |-> FALSE, at |-> [n \in {} |-> 0]]

\* The callers of Schema.Index: the property sets that share the Schema.
Callers == {1, 2}

\* A map made by make(map[string]int, len(s.cols)): writing is the flag
\* the run time sets for the duration of an assignment.
NoMap == [made |-> FALSE, writing |-> FALSE, at |-> NilMap.at]

\* A caller that is in no call of Index: pc is its place in the code,
\* name the argument, i the loop variable, col and ok the results index
\* and ok, m the map its assignment is writing.
Idle == [pc |-> "idle", name |-> <<>>, i |-> 0, col |-> 0, ok |-> FALSE, m |-> 0]

\* ref is the map the field s.name2Index refers to (the one made by that
\* caller, 0 for nil), maps[c] the map made by caller c.
NoIndexing ==
    [ref |-> 0, maps |-> [c \in Callers |-> NoMap], calls |-> [c \in Callers |-> Idle]]

\* m[k] = v
Put(m, k, v) == [x \in (DOMAIN m) \cup {k} |-> IF x = k THEN v ELSE m[x]]

\* Schema.Index, the linear scan from column i on: [col, ok].
RECURSIVE scan(_, _, _)
scan(cols, name, i) ==
    IF i >= Len(cols) THEN [col |-> 0, ok |-> FALSE]
    ELSE IF cols[i + 1].name = name THEN [col |-> i, ok |-> TRUE]
    ELSE scan(cols, name, i + 1)

\* The loop that makes the map, stopping the search at the first hit.
RECURSIVE makeMapFirst(_, _, _, _)
makeMapFirst(cols, name, i, r) ==
    IF i >= Len(cols) THEN r
    ELSE makeMapFirst(cols, name, i + 1,
             [col |-> IF cols[i + 1].name = name /\ ~r.ok THEN i ELSE r.col,
              ok |-> r.ok \/ cols[i + 1].name = name,
              at |-> Put(r.at, cols[i + 1].name, i)])

\* Schema.Index, the loop that makes the map, from column i on, with
\* r = [col, ok, at] so far: every column of the name sets the result,
\* every column is put in the map.
RECURSIVE makeMap(_, _, _, _)
makeMap(cols, name, i, r) ==
    IF i >= Len(cols) THEN r
    ELSE makeMap(cols, name, i + 1,
             [col |-> IF cols[i + 1].name = name THEN i ELSE r.col,
              ok |-> r.ok \/ cols[i + 1].name = name,
              at |-> Put(r.at, cols[i + 1].name, i)])

\* The return of Schema.Index when it has made the map: r of makeMap.
indexMade(r) ==
    [col |-> r.col, ok |-> r.ok, map |-> [made |-> TRUE, at |-> r.at]]

\* Schema.Index with the field name2Index being m: [col, ok, map], map
\* the field afterwards.
SchemaIndex(cols, m, name) ==
    IF m.made
    THEN [col |-> IF name \in DOMAIN m.at THEN m.at[name] ELSE 0,
          ok |-> name \in DOMAIN m.at, map |-> m]
    ELSE IF Len(cols) < name2IndexThreshold
    THEN [col |-> scan(cols, name, 0).col, ok |-> scan(cols, name, 0).ok,
          map |-> m]
    ELSE indexMade(makeMap(cols, name, 0,
                           [col |-> 0, ok |-> FALSE, at |-> NilMap.at]))

\* The loop of Props.name2Col over a foreign schema, from column i on: a
\* column whose name has another length is skipped (continue), a column
\* whose name has this length and other bytes ends the search (break).
RECURSIVE flatName2Col(_, _, _)
flatName2Col(sch, name, i) ==
    IF i >= Len(sch) THEN [col |-> 0, err |-> "ErrNoColumn"]
    ELSE IF Len(sch[i + 1].name) # Len(name) THEN flatName2Col(sch, name, i + 1)
    ELSE IF sch[i + 1].name # name THEN [col |-> 0, err |-> "ErrNoColumn"]
    ELSE [col |-> i, err |-> Nil]

\* Props.name2Col: [col, err]
name2Col(sch, P, name) ==
    IF P.fast THEN
        LET r == Index(sch, name) IN
        IF r.ok THEN [col |-> r.col, err |-> Nil]
        ELSE [col |-> 0, err |-> "ErrNoColumn"]
    ELSE flatName2Col(sch, name, 0)

\* Props.name2Index: [P, pos, err]
name2Index(sch, P, name) ==
    LET c == name2Col(sch, P, name) IN
    IF c.err # Nil THEN [P |-> P, pos |-> 0, err |-> c.err]
    ELSE index2Index(sch, P, c.col)

\* Props.HasName: [P, ret]
HasName(sch, P, name) ==
    LET r == name2Index(sch, P, name) IN
    [P |-> r.P, ret |-> (r.err # Nil /\ r.pos > 0)]

(***************************************************************************)
(* Construction.                                                           *)
(***************************************************************************)
\* PropsFromFlat: an immutable set over the caller's slice.
PropsFromFlat(data) ==
    [fast |-> FALSE, data |-> data, lookup |-> NilLookup,
     mutable |-> FALSE, shared |-> TRUE]

\* NewProps: a mutable set with the zero bytes.Buffer.
NewProps ==
    [fast |-> TRUE, data |-> <<>>, lookup |-> NilLookup,
     mutable |-> TRUE, shared |-> FALSE]

\* A schema argument of a constructor is <<>> for nil and <<sch>> for the
\* schema sch.
NilSchema == <<>>

\* No set: what the caller holds when the constructor has panicked.
NoProps ==
    [fast |-> FALSE, data |-> <<>>, lookup |-> NilLookup,
     mutable |-> FALSE, shared |-> FALSE]

\* PropsFromFlat without the test of the schema.
PropsFromFlatUnchecked(sa, data) == [P |-> PropsFromFlat(data), out |-> Ok]

\* PropsFromFlat called with the schema argument sa: [P, out]
PropsFromFlatOf(sa, data) ==
    IF Len(sa) = 0 THEN [P |-> NoProps, out |-> "panic"]     \* textPanic
    ELSE [P |-> PropsFromFlat(data), out |-> Ok]

\* NewProps called with the schema argument sa: [P, out]
NewPropsOf(sa) ==
    IF Len(sa) = 0 THEN [P |-> NoProps, out |-> "panic"]     \* textPanic
    ELSE [P |-> NewProps, out |-> Ok]

(***************************************************************************)
(* Inputs.                                                                 *)
(***************************************************************************)
\* Column names: "a", "bb", "bc" as bytes.
NameA == <<97>>
NameBB == <<98, 98>>
NameBC == <<98, 99>>
Names == {NameA, NameBB, NameBC, <<122>>}

Col(name, type) == [name |-> name, type |-> type]

\* The schemas the sets are built over.
Schemas ==
    { <<Col(NameA, "String"), Col(NameBB, "Bool")>>,
      <<Col(NameA, "Short"), Col(NameBB, "Binary")>>,
      <<Col(NameBB, "Int"), Col(NameBC, "DateTime")>>,
      <<Col(NameA, "UByte"), Col(NameBB, "Unknown")>> }

\* The accessors the calls are made through: the accessor of each column
\* of the schema, and one of a type the schema does not have.
CallAccessors(sch) ==
    {acc \in Accessors : \E c \in 1..Len(sch) : AccType(acc) = sch[c].type}
      \cup {"Double"}

\* The values passed to the setter of an accessor.
SetVals(acc) ==
    CASE acc = "Bool" -> {TRUE, FALSE}
      [] acc \in {"Byte", "Short", "Int", "Long"} -> {-2, 36}
      [] acc \in {"UByte", "UShort", "UInt", "ULong"} -> {7, 200}
      [] acc \in {"Float", "Double"} -> {7}
      [] acc = "DateTime" -> {Time(2006, 1, 2, 15, 4, 5, 0),
                              Time(2024, 2, 29, 23, 59, 58, 500)}
      [] OTHER -> {<<>>, <<65>>, <<66, 67>>}

\* The values found in the records of an initial payload, as bytes.
StoredVals(t) ==
    CASE t = "Bool" -> {<<2>>}
      [] t \in FixedTypes \ {"Bool"} -> {EncodeLE(258, FixedSize(t))}
      [] t \in VarTypes -> {EncodeLE(Len(v), SizeUint32) \o v : v \in {<<>>, <<65>>}}
      [] OTHER -> {}

\* The 2-byte tag of column c.
Tag(c) == EncodeLE(c, SizeUint16)

\* The well-formed records of a payload under sch.
Records(sch) ==
    UNION {{Tag(c) \o b : b \in StoredVals(columnType(sch, c))} :
           c \in 0..(Len(sch) - 1)}

\* The sequences of well-formed records of at most n bytes.
RECURSIVE WellFormed(_, _)
WellFormed(sch, n) ==
    {<<>>} \cup UNION {{r \o x : x \in WellFormed(sch, n - Len(r))} :
                       r \in {r \in Records(sch) : Len(r) <= n}}

\* How a payload may end: well, with a record cut short by one byte, or
\* with the tag of a column the schema does not have and what follows it.
Tails(sch) ==
    {<<>>, Tag(Len(sch))}
      \cup {SubSeq(r, 1, Len(r) - 1) : r \in Records(sch)}
      \cup {Tag(Len(sch)) \o r : r \in Records(sch)}

\* The payloads of at most n bytes.
Payloads(sch, n) ==
    {x \in {w \o t : w \in WellFormed(sch, n), t \in Tails(sch)} : Len(x) <= n}

\* The payloads that hold one timestamp, written as SetDateTime writes it.
StoredTime == Time(1999, 12, 31, 0, 0, 0, 0)

TimePayloads(sch) ==
    {Tag(c) \o EncodeLE(Len(FormatRFC3339(StoredTime)), SizeUint32)
        \o FormatRFC3339(StoredTime) :
       c \in {c \in 0..(Len(sch) - 1) : columnType(sch, c) = "DateTime"}}

\* Column indexes passed to the reads: the columns, and one on each side.
Indexes(sch) == (-1)..Len(sch)
\* Column indexes passed to the writes: the columns, and the one past them.
WriteIndexes(sch) == 0..Len(sch)

(***************************************************************************)
(* The caller's slice and the second set q share one backing array with p  *)
(* for as long as p.shared holds: a write through p then shows in both.    *)
(***************************************************************************)
Aliased(e, P) ==
    IF P.shared
    THEN [k \in 1..Len(e) |-> IF k <= Len(P.data) THEN P.data[k] ELSE e[k]]
    ELSE e

\* What the caller holds of a value a getter returned: the bytes val of
\* the slice or string, read from column col, and the position at of its
\* first byte in the buffer of p when it shares the storage of the
\* buffer, -1 when it has storage of its own.
NoHeld == [kind |-> "none", col |-> 0, val |-> <<>>, at |-> -1]

\* Props.GetBinary returning b itself, the slice of the buffer.
dupNone(col, b, at) == [kind |-> "[]byte", col |-> col, val |-> b, at |-> at]

\* Props.GetBinary: dup := make([]byte, len(b)); copy(dup, b); return dup,
\* b being the bytes at position at of the buffer.
dup(col, b, at) == [kind |-> "[]byte", col |-> col, val |-> b, at |-> -1]

\* Props.GetString, GetJSON, GetDateTimeString: string(b), a conversion
\* that copies.
stringOf(col, b, at) == [kind |-> "string", col |-> col, val |-> b, at |-> -1]

NoCall == [op |-> "none", on |-> "p", col |-> 0, name |-> <<>>, acc |-> Nil,
           arg |-> NoRet, out |-> Ok, ret |-> NoRet,
           fault |-> "none", build |-> Nil]

Call(op, col, acc, arg, out, ret) ==
    [op |-> op, on |-> "p", col |-> col, name |-> <<>>, acc |-> acc,
     arg |-> arg, out |-> out, ret |-> ret, fault |-> "none", build |-> Nil]

\* The constructor op, called with the schema argument sa, has returned r.
Constructed(op, sa, r) ==
    /\ p = r.P
    /\ last = [NoCall EXCEPT !.op = op, !.arg = sa, !.out = r.out]

\* The schema arguments of the constructors.
SchemaArgs == {NilSchema} \cup {<<s>> : s \in Schemas}

\* The payloads given to PropsFromFlat along with the schema argument sa.
PayloadArgs(sa) ==
    IF Len(sa) = 0 THEN {<<>>}
    ELSE Payloads(sa[1], MaxLen) \cup TimePayloads(sa[1])

Init ==
    \E sa \in SchemaArgs :
      /\ schema = (IF Len(sa) = 0 THEN <<>> ELSE sa[1])
      /\ \/ /\ ext \in PayloadArgs(sa)
            /\ Constructed("PropsFromFlat", sa, PropsFromFlatOf(sa, ext))
         \/ /\ ext = <<>>
            /\ Constructed("NewProps", sa, NewPropsOf(sa))
      /\ q = PropsFromFlatOf(sa, ext).P
      /\ schemaName2Index = NilMap
      /\ held = NoHeld
      /\ indexing = NoIndexing

Running == last.out # "panic"

\* The effect on the sets of a call on p that leaves p as P.
Leaves(P) ==
    /\ p' = P
    /\ ext' = Aliased(ext, P)
    /\ q' = [q EXCEPT !.data = ext']
    /\ UNCHANGED <<schema, schemaName2Index, indexing>>

\* The effect of a call on p that leaves p as P.
Becomes(P) == Leaves(P) /\ UNCHANGED held

\* A call c on p has returned r: a getter's [P, out, ret], a setter's
\* [P, out], or the [P, ret] of Has, HasName and Delete.
Got(r, c) == Becomes(r.P) /\ last' = [c EXCEPT !.out = r.out, !.ret = r.ret]

Done(r, c) == Becomes(r.P) /\ last' = [c EXCEPT !.out = r.out]

Told(r, c) == Becomes(r.P) /\ last' = [c EXCEPT !.ret = <<r.ret>>]

DoGet ==
    /\ Running
    /\ \E col \in Indexes(schema), acc \in CallAccessors(schema) :
         Got(Get(schema, p, col, acc), Call("Get", col, acc, NoRet, Ok, NoRet))

DoSet ==
    /\ Running
    /\ \E col \in WriteIndexes(schema), acc \in CallAccessors(schema) :
         \E v \in SetVals(acc) :
           Done(Set(schema, p, col, acc, v),
                Call("Set", col, acc, <<v>>, Ok, NoRet))

DoHas ==
    /\ Running
    /\ \E col \in Indexes(schema) :
         Told(Has(schema, p, col), Call("Has", col, Nil, NoRet, Ok, NoRet))

DoHasName ==
    /\ Running
    /\ \E name \in Names :
         Told(HasName(schema, p, name),
              [Call("HasName", 0, Nil, NoRet, Ok, NoRet) EXCEPT !.name = name])

DoDelete ==
    /\ Running
    /\ \E col \in WriteIndexes(schema) :
         Told(Delete(schema, p, col), Call("Delete", col, Nil, NoRet, Ok, NoRet))

\* The run-time types of the values passed to SetValue; "int" maps to no
\* column type.
RuntimeTypes(sch) ==
    {rt \in {"bool", "int8", "uint8", "int16", "uint16", "int32", "uint32",
             "int64", "uint64", "float32", "float64", "string", "[]byte",
             "time.Time"} :
        RuntimeAccessor(rt) \in CallAccessors(sch)} \cup {"int"}

RuntimeVals(rt) ==
    IF RuntimeAccessor(rt) = Nil THEN {36} ELSE SetVals(RuntimeAccessor(rt))

DoSetValue ==
    /\ Running
    /\ \E col \in WriteIndexes(schema), rt \in RuntimeTypes(schema) :
         \E v \in RuntimeVals(rt) :
           Done(SetValue(schema, p, col, rt, v),
                Call("SetValue", col, rt, <<v>>, Ok, NoRet))

DoGetValue ==
    /\ Running
    /\ \E col \in Indexes(schema), build \in Builds :
         Got(GetValue(schema, p, col, build),
             [Call("GetValue", col, Nil, NoRet, Ok, NoRet)
                EXCEPT !.build = build])

\* A call c on the second set q has returned r.
GotQ(r, c) ==
    /\ q' = r.P
    /\ last' = [c EXCEPT !.on = "q", !.out = r.out, !.ret = r.ret]
    /\ UNCHANGED <<schema, ext, p, schemaName2Index, held, indexing>>

\* A read of the second set q.
DoGetQ ==
    /\ Running
    /\ \E col \in Indexes(schema), acc \in CallAccessors(schema) :
         GotQ(Get(schema, q, col, acc), Call("Get", col, acc, NoRet, Ok, NoRet))

Next ==
    \/ DoGet
    \/ DoSet
    \/ DoHas
    \/ DoHasName
    \/ DoDelete
    \/ DoSetValue
    \/ DoGetValue

Spec == Init /\ [][Next]_vars

\* Writes through p and reads of q, the second set over the same slice.
NextShared ==
    \/ DoSet
    \/ DoDelete
    \/ DoGetQ

SpecShared == Init /\ [][NextShared]_vars

(***************************************************************************)
(* Properties.                                                             *)
(***************************************************************************)
InRange(c) == c >= 0 /\ c < Len(schema)

\* Column c has type T, the type of accessor acc.
Typed(c, acc) == InRange(c) /\ columnType(schema, c) = AccType(acc)

\* The last call was SetT(c, v) on p, on a column c of type T.
TypedSet == last.op = "Set" /\ last.on = "p" /\ Typed(last.col, last.acc)

\* C1: round trip.  For every column c of type T and every value v of T's
\* domain, after SetT(c, v) has returned without error, GetT(c) returns v
\* with a nil error.
C1_RoundTrip ==
    (TypedSet /\ last.out = Ok) =>
        LET g == Get(schema, p, last.col, last.acc) IN
        g.out = Ok /\ g.ret = last.arg

\* The round trip of every accessor but SetDateTime/GetDateTime, which
\* holds: a value written in place is read back.
RoundTripButDateTime ==
    (TypedSet /\ last.out = Ok /\ last.acc # "DateTime") =>
        LET g == Get(schema, p, last.col, last.acc) IN
        g.out = Ok /\ g.ret = last.arg

\* The value bytes of v as accessor acc writes them: little-endian for the
\* fixed widths, a 4-byte length and the raw bytes for the others.
ValueBytes(acc, v) ==
    IF acc \in FixedTypes THEN EncodeFixed(acc, v)
    ELSE IF acc = "DateTime"
    THEN EncodeLE(Len(FormatRFC3339(v)), SizeUint32) \o FormatRFC3339(v)
    ELSE EncodeLE(Len(v), SizeUint32) \o v

\* Column c has no value in P.
Unwritten(P, c) == index2Index(schema, P, c).pos = 0

\* C2: wire stability.  On a set created empty by NewProps, each write of
\* a column for the first time appends the record (column, value bytes) to
\* the bytes, so that writing c1, c2, ... in that order leaves the
\* concatenation of their records in that order.
C2_WireStability ==
    [][(p.fast /\ last'.op = "Set" /\ Typed(last'.col, last'.acc)
          /\ Unwritten(p, last'.col))
        => (/\ last'.out = Ok
            /\ p'.data = p.data \o Tag(last'.col)
                           \o ValueBytes(last'.acc, last'.arg[1]))]_vars

\* What every Get and every Has on P returns.
Reads(P) ==
    [c \in Indexes(schema) |->
       [get |-> [acc \in CallAccessors(schema) |->
                   LET g == Get(schema, P, c, acc) IN <<g.out, g.ret>>],
        has |-> Has(schema, P, c).ret]]

\* C3: copy-on-write isolation.  With two sets made by PropsFromFlat over
\* the same slice, no Set or Delete on the one (p) changes what any Get or
\* Has on the other (q) returns.
C3_Isolation == [][q' = q \/ Reads(q') = Reads(q)]_vars

\* p has been written in place after q was read, and q still reads a value.
C3_Witness ==
    /\ last.op = "Set" /\ last.out = Ok
    /\ q.lookup # NilLookup
    /\ p.data # q.data
    /\ \E c \in Indexes(schema), acc \in CallAccessors(schema) :
         Get(schema, q, c, acc).out = Ok

\* C4: the slice given to PropsFromFlat is never changed by any operation
\* on the set.
C4_CallerSlice == [][ext' = ext]_vars

\* A write on a set made by PropsFromFlat went through: the set reads the
\* new value and its bytes are no longer those of the slice.
C4_Witness ==
    /\ ~p.fast
    /\ last.op \in {"Set", "SetValue"} /\ last.out = Ok
    /\ p.mutable /\ p.data # ext

\* Column c has a value in P.
Stored(P, c) == InRange(c) /\ ~Unwritten(P, c)

\* C5: Has(c) returns true iff c is a valid column index with a value
\* stored, and HasName(n) returns true iff some column named n has a value
\* stored.
C5_Has ==
    /\ last.op = "Has" => (last.ret[1] <=> Stored(p, last.col))
    /\ last.op = "HasName" =>
         (last.ret[1] <=> \E c \in Named(schema, last.name) : Stored(p, c))

\* C6: Delete(c) returns true iff c is a valid column index with a value
\* stored, and then the record of c is removed; otherwise it returns false
\* and leaves the bytes, every value read back and the mutable flag as they
\* were.
C6_Delete ==
    [][last'.op = "Delete" =>
         IF Stored(p, last'.col)
         THEN last'.ret = <<TRUE>> /\ ~Stored(p', last'.col)
         ELSE /\ last'.ret = <<FALSE>>
              /\ p'.data = p.data
              /\ p'.mutable = p.mutable
              /\ Reads(p') = Reads(p)]_vars

\* C7: after a successful SetT(c, v) followed by Delete(c), GetT(c) fails
\* with NoValue and Has(c) is false.
C7_SetThenDelete ==
    [][(TypedSet /\ last.out = Ok
          /\ last'.op = "Delete" /\ last'.col = last.col)
        => (/\ Get(schema, p', last.col, last.acc).out = "ErrNoValue"
            /\ ~Has(schema, p', last.col).ret)]_vars

\* C8: type policing.  For distinct types T and U and a column c of type
\* U, GetT(c) and SetT(c, v) fail with TypeMismatch, whether or not c has a
\* value: so does the last call when it was of that kind, and so would any
\* such call made now.
C8_TypePolicing ==
    /\ (last.op \in {"Get", "Set"} /\ InRange(last.col)
          /\ ~Typed(last.col, last.acc))
         => last.out = "ErrTypeMismatch"
    /\ Running =>
         \A c \in 0..(Len(schema) - 1) :
           \A acc \in {a \in Accessors : ~Typed(c, a)} :
             /\ Get(schema, p, c, acc).out = "ErrTypeMismatch"
             /\ \A v \in SetVals(acc) :
                  Set(schema, p, c, acc, v).out = "ErrTypeMismatch"

\* Calls of the wrong type have failed on a column with a value and on a
\* column without one.
C8_Witness ==
    /\ last.op = "Set" /\ last.out = "ErrTypeMismatch"
    /\ Stored(p, last.col)
    /\ \E c \in 0..(Len(schema) - 1) : ~Stored(p, c)

\* The errors a Set or a Get fails with.
Failures == {"ErrNoColumn", "ErrTypeMismatch", "ErrNoValue", "errUnmappable"}

\* C9: a Set or Get that fails (NoColumn, TypeMismatch, NoValue, value of a
\* type that maps to no column type) leaves the bytes, every value read
\* back and the mutable flag as they were; a failed Set on an immutable set
\* does not duplicate the buffer.
C9_FailureAtomic ==
    [][(last'.op \in {"Get", "Set", "SetValue"} /\ last'.on = "p"
          /\ last'.out \in Failures)
        => (/\ p'.data = p.data
            /\ p'.mutable = p.mutable
            /\ p'.shared = p.shared
            /\ ext' = ext
            /\ (p' = p \/ Reads(p') = Reads(p)))]_vars

\* A Set has failed on an immutable set that holds a value.
C9_Witness ==
    /\ last.op \in {"Set", "SetValue"} /\ last.out \in Failures
    /\ ~p.mutable /\ p.shared
    /\ \E c \in 0..(Len(schema) - 1) : Stored(p, c)

(***************************************************************************)
(* Parsing: a set made by PropsFromFlat from any bytes, read only.         *)
(***************************************************************************)
RawBytes == 0..2

RawPayloads == UNION {[1..k -> RawBytes] : k \in 0..MaxRawLen}

InitParse ==
    /\ schema \in Schemas
    /\ ext \in RawPayloads
    /\ Constructed("PropsFromFlat", <<schema>>,
                   PropsFromFlatOf(<<schema>>, ext))
    /\ q = PropsFromFlat(ext)
    /\ schemaName2Index = NilMap
    /\ held = NoHeld
    /\ indexing = NoIndexing

NextParse == DoHas

SpecParse == InitParse /\ [][NextParse]_vars

\* C10: once the offset table of an immutable set is built, from any bytes
\* under any schema, the offset of each column c is 0 or is such that the
\* 2-byte tag before it and the value after it lie inside the bytes, and
\* the tag holds c.
C10_OffsetInvariant ==
    (~p.mutable /\ p.lookup # NilLookup) =>
        /\ Len(p.lookup) = Len(schema)
        /\ \A c \in 0..(Len(schema) - 1) :
             LET o == p.lookup[c + 1] IN
             \/ o = 0
             \/ /\ o - SizeUint16 >= 0
                /\ GetUint16(p.data, o - SizeUint16) = c
                /\ sizeOfValue(schema, p.data, c, o).err = Nil
                /\ o + sizeOfValue(schema, p.data, c, o).sz <= Len(p.data)

\* The table was built over bytes that hold a whole record followed by
\* bytes that are no whole record.
C10_Witness ==
    /\ ~p.mutable /\ p.lookup # NilLookup
    /\ \E c \in 0..(Len(schema) - 1) :
         /\ p.lookup[c + 1] > 0
         /\ p.lookup[c + 1] + sizeOfValue(schema, p.data, c, p.lookup[c + 1]).sz
              < Len(p.data)
    /\ \E c \in 0..(Len(schema) - 1) : p.lookup[c + 1] = 0

(***************************************************************************)
(* The wire format, read off the bytes: a payload is a run of records, a   *)
(* record a 2-byte column index and the value bytes of the column's type.  *)
(***************************************************************************)
\* The size of the value of column c that starts at position v of d, or -1
\* when the bytes from v on do not hold a whole value of c's type.
WholeSize(d, c, v) ==
    LET t == columnType(schema, c) IN
    IF t \in FixedTypes
    THEN (IF v + FixedSize(t) <= Len(d) THEN FixedSize(t) ELSE -1)
    ELSE IF t \notin VarTypes \/ v + SizeUint32 > Len(d) THEN -1
    ELSE IF v + SizeUint32 + GetUint32(d, v) <= Len(d)
    THEN SizeUint32 + GetUint32(d, v)
    ELSE -1

\* The positions of the column indexes met when d is read record by record
\* from position i; the last one may be that of a record that is not whole
\* or of a column the schema does not have.
RECURSIVE Starts(_, _)
Starts(d, i) ==
    IF i + SizeUint16 > Len(d) THEN {}
    ELSE IF GetUint16(d, i) >= Len(schema)
              \/ WholeSize(d, GetUint16(d, i), i + SizeUint16) < 0
    THEN {i}
    ELSE {i} \cup Starts(d, i + SizeUint16
                              + WholeSize(d, GetUint16(d, i), i + SizeUint16))

\* At position k of d starts a record of a column of the schema whose value
\* is cut short.
Truncated(d, k) ==
    /\ k \in Starts(d, 0)
    /\ GetUint16(d, k) < Len(schema)
    /\ columnType(schema, GetUint16(d, k)) \in FixedTypes \cup VarTypes
    /\ WholeSize(d, GetUint16(d, k), k + SizeUint16) < 0

\* The whole records of column c that start before position k of d.
WholeBefore(d, c, k) ==
    {j \in Starts(d, 0) : j < k /\ GetUint16(d, j) = c}

\* The accessors of column c's type.
AccessorsOf(c) == {acc \in Accessors : Typed(c, acc)}

\* The accessor that reads the stored bytes of column c as they are.
RawAccessor(c) ==
    IF columnType(schema, c) = "DateTime" THEN "DateTimeString"
    ELSE columnType(schema, c)

\* The offset table of P once built.
Table(P) == index2Index(schema, P, 0).P.lookup

\* C11: truncated record.  When the bytes given to PropsFromFlat hold a
\* record whose value does not fit in what remains, the build of the offset
\* table stops at that record: nothing from it on is indexed, its column
\* (if no earlier record holds it) has no offset, Has is false for it and
\* its typed Get returns NoValue, and the columns of the records before it
\* are indexed at one of those records and are read without error.
C11_TruncatedRecord ==
    ~p.mutable =>
      \A k \in Starts(p.data, 0) :
        Truncated(p.data, k) =>
          LET c == GetUint16(p.data, k) IN
          /\ \A j \in 0..(Len(schema) - 1) : Table(p)[j + 1] < k + SizeUint16
          /\ WholeBefore(p.data, c, k) = {} =>
               /\ Table(p)[c + 1] = 0
               /\ ~Has(schema, p, c).ret
               /\ \A acc \in AccessorsOf(c) :
                    Get(schema, p, c, acc).out = "ErrNoValue"
          /\ \A j \in 0..(Len(schema) - 1) :
               WholeBefore(p.data, j, k) # {} =>
                 /\ Table(p)[j + 1] - SizeUint16 \in WholeBefore(p.data, j, k)
                 /\ Get(schema, p, j, RawAccessor(j)).out = Ok

\* A Get has returned NoValue for the column of a truncated record that
\* follows a whole record of another column.
C11_Witness ==
    /\ ~p.mutable
    /\ last.op = "Get" /\ last.out = "ErrNoValue" /\ InRange(last.col)
    /\ \E k \in Starts(p.data, 0) :
         /\ Truncated(p.data, k)
         /\ GetUint16(p.data, k) = last.col
         /\ WholeBefore(p.data, last.col, k) = {}
         /\ \E j \in 0..(Len(schema) - 1) : WholeBefore(p.data, j, k) # {}

\* At position k of d, reading record by record, stands the index of a
\* column the schema does not have.
UnknownTag(d, k) == k \in Starts(d, 0) /\ GetUint16(d, k) >= Len(schema)

\* C12: unknown column index.  When the build of the offset table reads an
\* index that is at or above the schema's column count, it stops there:
\* nothing after that index is indexed, and the columns of the records
\* before it keep the offsets of those records.
C12_UnknownColumn ==
    ~p.mutable =>
      \A k \in Starts(p.data, 0) :
        UnknownTag(p.data, k) =>
          /\ \A j \in 0..(Len(schema) - 1) : Table(p)[j + 1] < k + SizeUint16
          /\ \A j \in 0..(Len(schema) - 1) :
               WholeBefore(p.data, j, k) # {} =>
                 Table(p)[j + 1] - SizeUint16 \in WholeBefore(p.data, j, k)

\* C15: construction.  PropsFromFlat(nil, data) and NewProps(nil) panic and
\* return no set; with a schema, PropsFromFlat returns an immutable set
\* over the bytes given and NewProps a mutable set with no bytes.
C15_Construction ==
    /\ last.op \in {"PropsFromFlat", "NewProps"} =>
         IF Len(last.arg) = 0
         THEN last.out = "panic" /\ p = NoProps
         ELSE last.out = Ok /\ p # NoProps
    /\ (last.op = "PropsFromFlat" /\ Len(last.arg) > 0) =>
         ~p.mutable /\ p.data = ext /\ p.lookup = NilLookup
    /\ (last.op = "NewProps" /\ Len(last.arg) > 0) =>
         p.mutable /\ p.data = <<>> /\ p.lookup = NilLookup

\* NewProps(nil) has panicked.
C15_Witness ==
    last.op = "NewProps" /\ Len(last.arg) = 0 /\ last.out = "panic"

\* C13: reads never panic.  On a set built by PropsFromFlat over any bytes
\* and not written since, every typed Get, every GetValue and every Has, at
\* any column index, returns a value or an error and does not panic.
C13_ReadsNeverPanic ==
    (~p.fast /\ ~p.mutable /\ last.op \in {"Get", "GetValue", "Has"})
        => last.out # "panic"

\* C17: GetValue(c) returns what the typed getter of column c's type
\* returns; on a DateTime column with a stored value it returns the
\* timestamp when the stored text parses as RFC 3339 and the stored text,
\* with a nil error, when it does not.
C17_GetValue ==
    [][(last'.op = "GetValue" /\ InRange(last'.col)) =>
         /\ columnType(schema, last'.col) \in ColumnTypes \ {"DateTime"} =>
              <<last'.out, last'.ret>>
                = <<Get(schema, p, last'.col, columnType(schema, last'.col)).out,
                    Get(schema, p, last'.col, columnType(schema, last'.col)).ret>>
         /\ (columnType(schema, last'.col) = "DateTime" /\ Stored(p, last'.col)) =>
              IF GetDateTime(schema, p, last'.col).out = "ParseError"
              THEN /\ last'.out = Ok
                   /\ last'.ret = Get(schema, p, last'.col, "DateTimeString").ret
              ELSE <<last'.out, last'.ret>>
                     = <<GetDateTime(schema, p, last'.col).out,
                         GetDateTime(schema, p, last'.col).ret>>]_vars

(***************************************************************************)
(* A foreign schema that panics.  The codec calls two methods of the       *)
(* foreign schema, ColumnsLength and Columns; either may panic on a        *)
(* malformed table.  A call made inside interop.FlatBufferSafe returns the *)
(* panic as an error; a call made outside lets it reach the caller.        *)
(***************************************************************************)
ForeignCalls == {"ColumnsLength", "Columns"}

Panicked(P) == [P |-> P, out |-> "panic", ret |-> NoRet]

\* The schema as Props.columnType reads it while call f of the foreign
\* schema panics: the call of Columns is guarded and the panic leaves the
\* zero column type.
Seen(sch, f) ==
    IF f = "Columns"
    THEN [i \in 1..Len(sch) |-> [sch[i] EXCEPT !.type = ZeroColumnType]]
    ELSE sch

\* Props.GetT while call f of the foreign schema panics: index2Index
\* calls numColumns, which calls ColumnsLength unguarded.
GetFaulty(sch, P, col, acc, f) ==
    IF f = "ColumnsLength" THEN Panicked(P) ELSE Get(Seen(sch, f), P, col, acc)

\* Props.SetT while call f of the foreign schema panics.
SetFaulty(sch, P, col, acc, v, f) ==
    IF f = "ColumnsLength" THEN [P |-> P, out |-> "panic"]
    ELSE Set(Seen(sch, f), P, col, acc, v)

\* Props.HasName while call f of the foreign schema panics: name2Col calls
\* ColumnsLength unguarded, and Columns inside FlatBufferSafe, whose error
\* makes name2Index return offset 0.
HasNameFaulty(sch, P, name, f) ==
    IF f = "ColumnsLength" THEN Panicked(P)
    ELSE IF Len(sch) = 0 THEN [P |-> P, out |-> Ok, ret |-> <<HasName(sch, P, name).ret>>]
    ELSE [P |-> P, out |-> Ok, ret |-> <<FALSE>>]

DoGetFaulty ==
    /\ Running
    /\ ~p.fast
    /\ \E col \in Indexes(schema), acc \in CallAccessors(schema), f \in ForeignCalls :
         Got(GetFaulty(schema, p, col, acc, f),
             [Call("Get", col, acc, NoRet, Ok, NoRet) EXCEPT !.fault = f])

DoSetFaulty ==
    /\ Running
    /\ ~p.fast
    /\ \E col \in WriteIndexes(schema), acc \in CallAccessors(schema), f \in ForeignCalls :
         \E v \in SetVals(acc) :
           Done(SetFaulty(schema, p, col, acc, v, f),
                [Call("Set", col, acc, <<v>>, Ok, NoRet) EXCEPT !.fault = f])

DoHasNameFaulty ==
    /\ Running
    /\ ~p.fast
    /\ \E name \in Names, f \in ForeignCalls :
         Got(HasNameFaulty(schema, p, name, f),
             [Call("HasName", 0, Nil, NoRet, Ok, NoRet)
                EXCEPT !.name = name, !.fault = f])

NextForeign ==
    \/ DoGetFaulty
    \/ DoSetFaulty
    \/ DoHasNameFaulty

SpecForeign == Init /\ [][NextForeign]_vars

\* C14: on a set built by PropsFromFlat, a panic of the foreign schema
\* during an operation is returned as an error and never reaches the
\* caller.
C14_ForeignPanic ==
    (~p.fast /\ last.fault # "none") => last.out # "panic"

\* C16: SetValue(c, v) on a column c in range does what the typed setter
\* of v's run-time type does: it fails with TypeMismatch when that type is
\* not the type of column c and succeeds when it is; a value whose type
\* maps to no column type fails with the unmappable-value error and
\* changes nothing.
C16_SetValue ==
    [][(last'.op = "SetValue" /\ InRange(last'.col)) =>
         IF RuntimeAccessor(last'.acc) = Nil
         THEN last'.out = "errUnmappable" /\ p' = p
         ELSE /\ p' = Set(schema, p, last'.col, RuntimeAccessor(last'.acc),
                          last'.arg[1]).P
              /\ last'.out = Set(schema, p, last'.col,
                                 RuntimeAccessor(last'.acc), last'.arg[1]).out
              /\ last'.out = (IF Typed(last'.col, RuntimeAccessor(last'.acc))
                              THEN Ok ELSE "ErrTypeMismatch")]_vars

\* C16 but for the success of a well-typed call: what holds of SetValue.
SetValueButSuccess ==
    [][(last'.op = "SetValue" /\ InRange(last'.col)) =>
         IF RuntimeAccessor(last'.acc) = Nil
         THEN last'.out = "errUnmappable" /\ p' = p
         ELSE /\ p' = Set(schema, p, last'.col, RuntimeAccessor(last'.acc),
                          last'.arg[1]).P
              /\ ~Typed(last'.col, RuntimeAccessor(last'.acc))
                   => last'.out = "ErrTypeMismatch"
              /\ (Typed(last'.col, RuntimeAccessor(last'.acc))
                    /\ Stored(p, last'.col)
                    /\ RuntimeAccessor(last'.acc) \in FixedTypes)
                   => last'.out = Ok]_vars

(***************************************************************************)
(* The name-keyed accessors: name2Col, then the index-keyed accessor.      *)
(***************************************************************************)
\* Props.GetTName after name2Col has returned c.
getNamed(sch, P, acc, c) ==
    IF c.err # Nil THEN [P |-> P, out |-> c.err, ret |-> NoRet]
    ELSE Get(sch, P, c.col, acc)

\* Props.GetTName
GetName(sch, P, name, acc) == getNamed(sch, P, acc, name2Col(sch, P, name))

\* Props.SetTName after name2Col has returned c.
setNamed(sch, P, acc, v, c) ==
    IF c.err # Nil THEN [P |-> P, out |-> c.err]
    ELSE Set(sch, P, c.col, acc, v)

\* Props.SetTName
SetName(sch, P, name, acc, v) ==
    setNamed(sch, P, acc, v, name2Col(sch, P, name))

\* Props.DeleteName after name2Col has returned c.
deleteNamed(sch, P, c) ==
    IF c.err # Nil THEN [P |-> P, ret |-> FALSE] ELSE Delete(sch, P, c.col)

\* Props.DeleteName
DeleteName(sch, P, name) == deleteNamed(sch, P, name2Col(sch, P, name))

DoGetName ==
    /\ Running
    /\ \E name \in Names, acc \in CallAccessors(schema) :
         Got(GetName(schema, p, name, acc),
             [Call("GetName", 0, acc, NoRet, Ok, NoRet) EXCEPT !.name = name])

DoSetName ==
    /\ Running
    /\ \E name \in Names, acc \in CallAccessors(schema) :
         \E v \in SetVals(acc) :
           Done(SetName(schema, p, name, acc, v),
                [Call("SetName", 0, acc, <<v>>, Ok, NoRet) EXCEPT !.name = name])

DoDeleteName ==
    /\ Running
    /\ \E name \in Names :
         Told(DeleteName(schema, p, name),
              [Call("DeleteName", 0, Nil, NoRet, Ok, NoRet) EXCEPT !.name = name])

NextName ==
    \/ DoGetName
    \/ DoSetName
    \/ DoHasName
    \/ DoDeleteName

SpecName == Init /\ [][NextName]_vars

\* No two columns of the schema have the same name.
UniqueNames ==
    \A i, j \in 1..Len(schema) : schema[i].name = schema[j].name => i = j

\* The column named name, there being one.
ColumnOf(name) == CHOOSE i \in Named(schema, name) : TRUE

\* C18: over a schema with unique names, local or foreign, a name-keyed
\* Get, Set, Has or Delete called with the name of column i returns what
\* the index-keyed operation on i returns and leaves the set as that
\* operation leaves it; a name-keyed Get or Set fails with NoColumn only
\* when no column has the name.
C18_NameKeyed ==
    [][(UniqueNames /\ last'.op \in {"GetName", "SetName", "HasName", "DeleteName"}) =>
         /\ (last'.op \in {"GetName", "SetName"} /\ last'.out = "ErrNoColumn")
              => Named(schema, last'.name) = {}
         /\ Named(schema, last'.name) # {} =>
              CASE last'.op = "GetName" ->
                     <<p', last'.out, last'.ret>>
                       = <<Get(schema, p, ColumnOf(last'.name), last'.acc).P,
                           Get(schema, p, ColumnOf(last'.name), last'.acc).out,
                           Get(schema, p, ColumnOf(last'.name), last'.acc).ret>>
                [] last'.op = "SetName" ->
                     <<p', last'.out>>
                       = <<Set(schema, p, ColumnOf(last'.name), last'.acc,
                               last'.arg[1]).P,
                           Set(schema, p, ColumnOf(last'.name), last'.acc,
                               last'.arg[1]).out>>
                [] last'.op = "HasName" ->
                     <<p', last'.ret>>
                       = <<Has(schema, p, ColumnOf(last'.name)).P,
                           <<Has(schema, p, ColumnOf(last'.name)).ret>> >>
                [] last'.op = "DeleteName" ->
                     <<p', last'.ret>>
                       = <<Delete(schema, p, ColumnOf(last'.name)).P,
                           <<Delete(schema, p, ColumnOf(last'.name)).ret>> >>
   ]_vars

\* C18 restricted to the sets over a local schema (made by NewProps).
NameKeyedLocal ==
    [][(p.fast /\ UniqueNames /\ last'.op \in {"GetName", "SetName"}) =>
         /\ last'.out = "ErrNoColumn" => Named(schema, last'.name) = {}
         /\ Named(schema, last'.name) # {} =>
              p' = (IF last'.op = "GetName"
                    THEN Get(schema, p, ColumnOf(last'.name), last'.acc).P
                    ELSE Set(schema, p, ColumnOf(last'.name), last'.acc,
                             last'.arg[1]).P)]_vars

(***************************************************************************)
(* Schema.Index on local schemas around the threshold, with and without    *)
(* a name that two columns have.                                           *)
(***************************************************************************)
\* The name of column k: one byte, "a" for column 1.
NameOf(k) == <<96 + k>>

\* The schema of len columns with the names NameOf(1), ..., but that
\* column i has the name of column j.
Renamed(len, i, j) ==
    [k \in 1..len |-> Col(NameOf(IF k = i THEN j ELSE k), "Int")]

MinCols == name2IndexThreshold - 1
MaxCols == name2IndexThreshold + 1

IndexSchemas ==
    {Renamed(len, i, j) : len \in MinCols..MaxCols, i \in 1..MaxCols, j \in 1..MaxCols}

\* The names looked up: those of the columns and one of no column.
IndexNames == {NameOf(k) : k \in 1..(MaxCols + 1)}

InitIndex ==
    /\ schema \in IndexSchemas
    /\ ext = <<>>
    /\ Constructed("NewProps", <<schema>>, NewPropsOf(<<schema>>))
    /\ q = PropsFromFlat(ext)
    /\ schemaName2Index = NilMap
    /\ held = NoHeld
    /\ indexing = NoIndexing

\* The call Index(name) has returned r; arg keeps whether the map existed
\* when the call was made.
Indexed(r, name) ==
    /\ schemaName2Index' = r.map
    /\ last' = [Call("Index", 0, Nil, <<schemaName2Index.made>>, Ok,
                     <<r.col, r.ok>>) EXCEPT !.name = name]
    /\ UNCHANGED <<schema, ext, p, q, held, indexing>>

DoIndex ==
    \E name \in IndexNames :
      Indexed(SchemaIndex(schema, schemaName2Index, name), name)

NextIndex == DoIndex

SpecIndex == InitIndex /\ [][NextIndex]_vars

\* C19: (1) on a schema with unique names Index(name) returns (i, TRUE)
\* exactly when column i has the name and (_, FALSE) when no column has
\* it, below, at and above the threshold; (2) a call made when the map
\* exists returns what the first call, made without the map, returns;
\* (3) from the threshold on, a name that several columns have gives the
\* last of them.
C19_SchemaIndex ==
    [][last'.op = "Index" =>
         /\ UniqueNames =>
              /\ last'.ret[2] = (Named(schema, last'.name) # {})
              /\ last'.ret[2] => last'.ret[1] \in Named(schema, last'.name)
         /\ last'.ret = <<SchemaIndex(schema, NilMap, last'.name).col,
                          SchemaIndex(schema, NilMap, last'.name).ok>>
         /\ (Len(schema) >= name2IndexThreshold
               /\ Named(schema, last'.name) # {})
              => last'.ret = <<SetMax(Named(schema, last'.name)), TRUE>>
         /\ schemaName2Index'.made = (Len(schema) >= name2IndexThreshold)
      ]_vars

\* A later call, answered from the map, has found a name that two columns
\* have.
C19_Witness ==
    /\ last.op = "Index"
    /\ last.arg = <<TRUE>>
    /\ Cardinality(Named(schema, last.name)) = 2
    /\ last.ret = <<SetMax(Named(schema, last.name)), TRUE>>

\* The set after one more call of the last call, a SetT(c, v) on p.
SetAgain == Set(schema, p, last.col, last.acc, last.arg[1])

\* C20: after SetT(c, v) on a column c of type T has returned without
\* error, the same call made again returns without error; for a T of
\* fixed width it leaves the payload byte for byte as it is, for a T of
\* variable width it overwrites the value in place, the payload keeps its
\* length and GetT(c) returns v.
C20_SetTwice ==
    (TypedSet /\ last.out = Ok) =>
        /\ SetAgain.out = Ok
        /\ AccType(last.acc) \in FixedTypes => SetAgain.P.data = p.data
        /\ AccType(last.acc) \in VarTypes =>
             /\ Len(SetAgain.P.data) = Len(p.data)
             /\ SetAgain.P.lookup = p.lookup
             /\ Get(schema, SetAgain.P, last.col, last.acc).out = Ok
             /\ Get(schema, SetAgain.P, last.col, last.acc).ret = last.arg

\* C20 with the bytes of v as SetT stores them in place of v: what holds
\* of the second call.
SetTwiceButDateTime ==
    (TypedSet /\ last.out = Ok) =>
        /\ SetAgain.out = Ok
        /\ SetAgain.P.data = p.data
        /\ SetAgain.P.lookup = p.lookup
        /\ last.acc # "DateTime" =>
             Get(schema, SetAgain.P, last.col, last.acc).ret = last.arg

\* The accessor a write goes through: that of SetT, or the one SetValue
\* picks for the run-time type of its value.
WriteAccessor(c) ==
    IF c.op = "SetValue" THEN RuntimeAccessor(c.acc) ELSE c.acc

\* The call c, made on the set P, is a write that passes the index check
\* and the type check: a Set or SetValue of the column's type, or a Delete
\* of a column with a value.
CheckedWrite(P, c) ==
    /\ InRange(c.col)
    /\ \/ c.op \in {"Set", "SetValue"} /\ Typed(c.col, WriteAccessor(c))
       \/ c.op = "Delete" /\ Stored(P, c.col)

\* C21: the mutable flag of a set changes from FALSE to TRUE only; it
\* changes only in a write that passed its index and type checks, and
\* then the buffer is a duplicate; a Get, a Has and a failed write leave
\* it alone.
C21_MutableOnce ==
    [][/\ p.mutable => p'.mutable
       /\ (~p.mutable /\ p'.mutable) => (CheckedWrite(p, last') /\ ~p'.shared)
       /\ last'.op \in {"Get", "GetValue", "Has", "HasName"}
            => p'.mutable = p.mutable
       /\ (last'.op \in {"Set", "SetValue"}
             /\ last'.out \in {"ErrNoColumn", "ErrTypeMismatch", "errUnmappable"})
            => p'.mutable = p.mutable]_vars

\* A set made by PropsFromFlat has become mutable in a Set that went
\* through, and owns its buffer.
C21_Witness ==
    /\ ~p.fast /\ p.mutable /\ ~p.shared
    /\ last.op = "Set" /\ last.out = Ok

\* C22: a GetT(c) or SetT(c, v) with c out of range fails with NoColumn;
\* with c in range and a column type other than T it fails with
\* TypeMismatch, whether or not c has a value; GetT(c) fails with NoValue
\* exactly when c is in range, of type T and without a value, and no Set
\* fails with NoValue.
C22_ErrorPrecedence ==
    [][last'.op \in {"Get", "Set"} =>
         /\ ~InRange(last'.col) => last'.out = "ErrNoColumn"
         /\ (InRange(last'.col) /\ ~Typed(last'.col, last'.acc))
              => last'.out = "ErrTypeMismatch"
         /\ last'.out = "ErrNoValue"
              <=> (last'.op = "Get" /\ Typed(last'.col, last'.acc)
                     /\ ~Stored(p, last'.col))]_vars

\* A getter of the wrong type has failed with TypeMismatch on a column
\* without a value.
C22_Witness ==
    /\ last.op = "Get" /\ last.out = "ErrTypeMismatch"
    /\ InRange(last.col) /\ ~Stored(p, last.col)
    /\ last.acc \in FixedTypes

\* C23: a SetT(c, v) on a column c of type T without a value goes through
\* and appends: the bytes there were stay, the tag of c and the value
\* follow them (2 + size of the value more bytes), and offset[c] is the
\* old length + 2.
C23_Append ==
    [][(last'.op = "Set" /\ Typed(last'.col, last'.acc)
          /\ Unwritten(p, last'.col))
        => (/\ last'.out = Ok
            /\ SubSeq(p'.data, 1, Len(p.data)) = p.data
            /\ p'.data = p.data \o Tag(last'.col)
                           \o ValueBytes(last'.acc, last'.arg[1])
            /\ Len(p'.data) = Len(p.data) + SizeUint16
                                + Len(ValueBytes(last'.acc, last'.arg[1]))
            /\ p'.lookup # NilLookup
            /\ p'.lookup[last'.col + 1] = Len(p.data) + SizeUint16)]_vars

\* What the append of the code does on a set with an offset table: the
\* length of the payload stays, offset[c] is set, and the call panics.
AppendPanics ==
    [][(~p.fast /\ last'.op = "Set" /\ Typed(last'.col, last'.acc)
          /\ Unwritten(p, last'.col))
        => (/\ last'.out = "panic"
            /\ Len(p'.data) = Len(p.data)
            /\ Len(p.data) >= SizeUint16
                 => p'.lookup[last'.col + 1] = Len(p.data) + SizeUint16)]_vars

\* The range [lo, hi) of the value bytes of column c in P that a SetT of
\* accessor acc overwrites: the value for a fixed width, the bytes after
\* the length prefix for a variable width.
ValueRange(P, c, acc) ==
    IF AccType(acc) \in FixedTypes
    THEN [lo |-> Table(P)[c + 1], hi |-> Table(P)[c + 1] + FixedSize(AccType(acc))]
    ELSE [lo |-> Table(P)[c + 1] + SizeUint32,
          hi |-> Table(P)[c + 1] + SizeUint32 + GetUint32(P.data, Table(P)[c + 1])]

\* The call c is a SetT on a column of type T that has a value in P, of
\* fixed width or of the length of the new value.
InPlace(P, c) ==
    /\ c.op = "Set" /\ Typed(c.col, c.acc) /\ Stored(P, c.col)
    /\ AccType(c.acc) \in VarTypes =>
         GetUint32(P.data, Table(P)[c.col + 1]) + SizeUint32
           = Len(ValueBytes(c.acc, c.arg[1]))

\* C24: a SetT(c, v) on a column c with a value of fixed width, or of
\* variable width and of the length of v, changes the value bytes of c
\* only: the payload keeps its length, every byte outside the value of c
\* (the tag and the length prefix of c among them) and every entry of the
\* offset table stay.
C24_InPlaceFrame ==
    [][InPlace(p, last') =>
         /\ Len(p'.data) = Len(p.data)
         /\ \A k \in 0..(Len(p.data) - 1) :
              (k < ValueRange(p, last'.col, last'.acc).lo
                 \/ k >= ValueRange(p, last'.col, last'.acc).hi)
                => At(p'.data, k) = At(p.data, k)
         /\ p'.lookup = Table(p)]_vars

\* A value of variable width has been overwritten in place by another of
\* the same length, next to a column with a value.
C24_Witness ==
    /\ last.op = "Set" /\ last.out = Ok /\ TypedSet
    /\ last.acc \in VarTypes \ {"DateTime"}
    /\ Len(last.arg[1]) > 0
    /\ Get(schema, p, last.col, last.acc).ret = last.arg
    /\ Len(p.data) > SizeUint16 + Len(ValueBytes(last.acc, last.arg[1]))

\* The call c is a SetT on a column of variable-width type T that has a
\* value in P of another length than the new value.
Relocating(P, c) ==
    /\ c.op = "Set" /\ Typed(c.col, c.acc) /\ Stored(P, c.col)
    /\ AccType(c.acc) \in VarTypes
    /\ GetUint32(P.data, Table(P)[c.col + 1]) + SizeUint32
         # Len(ValueBytes(c.acc, c.arg[1]))

\* What the getter of its type returns for column c of P: <<out, ret>>.
Value(P, c) ==
    <<Get(schema, P, c, RawAccessor(c)).out, Get(schema, P, c, RawAccessor(c)).ret>>

\* C25: a SetT(c, v) of variable width on a column c whose value has
\* another length than v goes through; afterwards GetT(c) returns v and
\* every other column that had a value returns the value it had.
C25_Relocate ==
    [][Relocating(p, last') =>
         /\ last'.out = Ok
         /\ last'.acc # "DateTime" =>
              Get(schema, p', last'.col, last'.acc).ret = last'.arg
         /\ \A c \in 0..(Len(schema) - 1) :
              (c # last'.col /\ Stored(p, c)) => Value(p', c) = Value(p, c)]_vars

\* What the relocating Set of the code does: it panics, and the payload
\* ends where the record of c began.
RelocatePanics ==
    [][Relocating(p, last') =>
         /\ last'.out = "panic"
         /\ p'.mutable
         /\ Len(p'.data) = Table(p)[last'.col + 1] - SizeUint16]_vars

\* The set P with its offset table built.
Indexed0(P) == index2Index(schema, P, 0).P

\* The removal of the record of column c from P as the claim has it, the
\* record being bytes[start, end) of P0, the set with the table built, and
\* d being the set after the removal.
Removed(P0, c, start, end, d) ==
    /\ d.data = Slice(P0.data, 0, start) \o Slice(P0.data, end, Len(P0.data))
    /\ d.lookup[c + 1] = 0
    /\ \A k \in 0..(Len(schema) - 1) :
         k # c => d.lookup[k + 1] = (IF P0.lookup[k + 1] >= end
                                     THEN P0.lookup[k + 1] - (end - start)
                                     ELSE P0.lookup[k + 1])

\* C26: the removal of the record of a column c with a value, which
\* occupies the bytes from start = offset[c] - 2 to end = offset[c] + size
\* of the value, leaves the bytes before start followed by the bytes from
\* end on, makes offset[c] 0, decreases every other offset >= end by
\* end - start and leaves the other offsets.
C26_Removal ==
    Running =>
      \A c \in 0..(Len(schema) - 1) :
        Stored(p, c) =>
          Removed(Indexed0(p), c,
                  Table(p)[c + 1] - SizeUint16,
                  Table(p)[c + 1]
                    + sizeOfValue(schema, p.data, c, Table(p)[c + 1]).sz,
                  delete(schema, Indexed0(p), c, Table(p)[c + 1]))

\* What the removal of the code does: the payload ends where the record
\* began, offset[c] is 0, and no other offset changes.
RemovalTruncates ==
    Running =>
      \A c \in 0..(Len(schema) - 1) :
        Stored(p, c) =>
          /\ delete(schema, Indexed0(p), c, Table(p)[c + 1]).data
               = Slice(p.data, 0, Table(p)[c + 1] - SizeUint16)
          /\ delete(schema, Indexed0(p), c, Table(p)[c + 1]).lookup
               = [Table(p) EXCEPT ![c + 1] = 0]

\* The columns of variable-width type.
VarColumns == {c \in 0..(Len(schema) - 1) : columnType(schema, c) \in VarTypes}

\* sizeOfValue of a variable-width column at position pos of d returns
\* what it has to when rem bytes are the least that hold a length prefix.
SizedFrom(d, c, pos, rem) ==
    IF Len(d) - pos < rem
    THEN sizeOfValue(schema, d, c, pos).err = "errStringSizeCorrupt"
    ELSE IF GetUint32(d, pos) > MaxInt - SizeUint32
    THEN sizeOfValue(schema, d, c, pos).err = "errStringSizeOverflowsInt"
    ELSE sizeOfValue(schema, d, c, pos)
           = [sz |-> SizeUint32 + GetUint32(d, pos), err |-> Nil]

\* At position k of d starts the last record, one of column c with a value
\* of length 0.
EmptyLast(d, c, k) ==
    /\ k \in Starts(d, 0)
    /\ GetUint16(d, k) = c
    /\ k + SizeUint16 + SizeUint32 = Len(d)
    /\ GetUint32(d, k + SizeUint16) = 0

\* C28: for a column of variable-width type and a position pos of the
\* payload, sizeOfValue returns 4 + n, n being the u32 at pos, when 4 bytes
\* or more remain and n <= MaxInt - 4, fails with errStringSizeCorrupt when
\* fewer than 4 remain and with errStringSizeOverflowsInt when n is above
\* MaxInt - 4; a value of length 0 stored as the last record is indexed
\* and read back as the empty value.
C28_SizeOfValue ==
    \A c \in VarColumns :
      /\ \A pos \in 0..Len(p.data) : SizedFrom(p.data, c, pos, SizeUint32)
      /\ ~p.mutable =>
           \A k \in 0..Len(p.data) :
             EmptyLast(p.data, c, k) =>
               /\ Table(p)[c + 1] = k + SizeUint16
               /\ Value(p, c) = <<Ok, << <<>> >> >>

\* What holds of sizeOfValue: it takes 5 bytes or more to remain.
SizeOfValueStrict ==
    \A c \in VarColumns :
      \A pos \in 0..Len(p.data) : SizedFrom(p.data, c, pos, SizeUint32 + 1)

(***************************************************************************)
(* Payloads that hold two records of one column.                           *)
(***************************************************************************)
\* The values of the two records, as bytes.
DupVals(t) ==
    IF t \in FixedTypes THEN StoredVals(t) \cup {EncodeLE(1, FixedSize(t))}
    ELSE StoredVals(t)

DupPayloads(sch) ==
    UNION {{Tag(c) \o b[1] \o Tag(c) \o b[2] :
              b \in {x \in DupVals(columnType(sch, c))
                               \X DupVals(columnType(sch, c)) : x[1] # x[2]}} :
           c \in 0..(Len(sch) - 1)}

InitDup ==
    /\ schema \in Schemas
    /\ ext \in DupPayloads(schema)
    /\ Constructed("PropsFromFlat", <<schema>>,
                   PropsFromFlatOf(<<schema>>, ext))
    /\ q = PropsFromFlat(ext)
    /\ schemaName2Index = NilMap
    /\ held = NoHeld
    /\ indexing = NoIndexing

NextDup ==
    \/ DoGet
    \/ DoHas

SpecDup == InitDup /\ [][NextDup]_vars

\* The positions of the whole records of column c in d.
WholeRecords(d, c) ==
    {k \in Starts(d, 0) :
       /\ GetUint16(d, k) = c
       /\ WholeSize(d, c, k + SizeUint16) >= 0}

\* The value of the record of column c at position k of d.
RecordValue(d, c, k) ==
    IF columnType(schema, c) \in FixedTypes
    THEN DecodeFixed(columnType(schema, c),
                     Slice(d, k + SizeUint16,
                           k + SizeUint16 + FixedSize(columnType(schema, c))))
    ELSE Slice(d, k + SizeUint16 + SizeUint32,
               k + SizeUint16 + WholeSize(d, c, k + SizeUint16))

\* Column c has two whole records or more in the payload of P, a payload
\* of records of columns of the schema, and the table points at the last
\* of them, whose value the getter returns; the bytes are as they were.
LaterWins(P, c) ==
    /\ Table(P)[c + 1] = SetMax(WholeRecords(P.data, c)) + SizeUint16
    /\ Value(P, c) = <<Ok, <<RecordValue(P.data, c,
                                         SetMax(WholeRecords(P.data, c)))>> >>
    /\ Indexed0(P).data = P.data

Duplicated(P, c) ==
    /\ ~P.mutable
    /\ Cardinality(WholeRecords(P.data, c)) >= 2
    /\ \A k \in Starts(P.data, 0) : ~UnknownTag(P.data, k)

\* C27: when a column c has two well-formed records in the payload given
\* to PropsFromFlat, the offset table points at the later one, GetT(c)
\* returns the value of the later one, and the payload bytes stay.
C27_Duplicates ==
    \A c \in 0..(Len(schema) - 1) : Duplicated(p, c) => LaterWins(p, c)

\* C27 but for a later record that is the last of the payload and holds a
\* value of length 0.
DuplicatesButEmptyLast ==
    \A c \in 0..(Len(schema) - 1) :
      (Duplicated(p, c)
         /\ ~EmptyLast(p.data, c, SetMax(WholeRecords(p.data, c))))
        => LaterWins(p, c)

\* The offset table of P is absent or has an entry per column, and every
\* column with an offset has its tag and its whole value inside the bytes
\* of P, the tag holding the column's index.
OffsetsInside(P) ==
    P.lookup # NilLookup =>
      /\ Len(P.lookup) = Len(schema)
      /\ \A c \in 0..(Len(schema) - 1) :
           P.lookup[c + 1] > 0 =>
             /\ P.lookup[c + 1] - SizeUint16 >= 0
             /\ P.lookup[c + 1] <= Len(P.data)
             /\ GetUint16(P.data, P.lookup[c + 1] - SizeUint16) = c
             /\ WholeSize(P.data, c, P.lookup[c + 1]) >= 0

\* C29: in every state reached by Set, Delete, Has and Get calls from a
\* set made by NewProps or PropsFromFlat, the offset table is absent or
\* has as many entries as there are columns, and every column c with
\* offset[c] > 0 has its 2-byte tag, equal to c, and its whole value
\* inside the bytes.
C29_Offsets == OffsetsInside(p)

\* C29 in the states reached without a panic.
OffsetsUnlessPanic == Running => OffsetsInside(p)

(***************************************************************************)
(* The caller keeps what a getter of variable-width type returned, writes  *)
(* into it when it is a slice, and goes on writing the set.                *)
(***************************************************************************)
\* The accessors that return a slice or a string.
HeldAccessors == {"String", "Json", "Binary", "DateTimeString"}

\* What the caller holds after the getter acc of column col has returned
\* r: the value returned, which getBinary took from the buffer of r.P.
Kept(col, acc, r) ==
    IF r.out # Ok THEN held
    ELSE IF acc = "Binary"
    THEN dup(col, r.ret[1], r.P.lookup[col + 1] + SizeUint32)
    ELSE stringOf(col, r.ret[1], r.P.lookup[col + 1] + SizeUint32)

\* The getter has returned r.
GotHeld(col, acc, r) ==
    /\ Leaves(r.P)
    /\ held' = Kept(col, acc, r)
    /\ last' = [Call("Get", col, acc, NoRet, Ok, NoRet)
                  EXCEPT !.out = r.out, !.ret = r.ret]

DoGetHeld ==
    /\ Running
    /\ \E col \in Indexes(schema),
          acc \in HeldAccessors \cap CallAccessors(schema) :
         GotHeld(col, acc, Get(schema, p, col, acc))

\* The bytes written into a slice.
HeldBytes == {0, 66}

\* The caller writes byte x at index k of the slice it holds: a write into
\* the buffer of p when the slice shares its storage.
DoWriteHeld ==
    /\ Running
    /\ held.kind = "[]byte"
    /\ \E k \in 0..(Len(held.val) - 1), x \in HeldBytes :
         /\ held' = [held EXCEPT !.val = Overwrite(held.val, k, <<x>>)]
         /\ Leaves(IF held.at >= 0
                   THEN [p EXCEPT !.data = Overwrite(p.data, held.at + k, <<x>>)]
                   ELSE p)
         /\ last' = Call("WriteHeld", held.col, Nil, <<k, x>>, Ok, NoRet)

\* The values written while a value is held.
HeldVals(acc) == SetVals(acc) \cup {<<66>>}

\* What the caller holds after a write that has turned the set P into P2:
\* the bytes of the buffer when the slice shares its storage and the write
\* has not moved the set to a buffer of its own.
KeptOver(P, P2) ==
    IF held.at >= 0 /\ P.mutable /\ held.at + Len(held.val) <= Len(P2.data)
    THEN [held EXCEPT !.val = Slice(P2.data, held.at, held.at + Len(held.val))]
    ELSE held

\* The setter has returned r.
SetHeld(c, r) ==
    /\ Leaves(r.P)
    /\ held' = KeptOver(p, r.P)
    /\ last' = [c EXCEPT !.out = r.out]

DoSetHeld ==
    /\ Running
    /\ \E col \in WriteIndexes(schema),
          acc \in HeldAccessors \cap CallAccessors(schema) :
         \E v \in HeldVals(acc) :
           SetHeld(Call("Set", col, acc, <<v>>, Ok, NoRet),
                   Set(schema, p, col, acc, v))

NextHeld ==
    \/ DoGetHeld
    \/ DoWriteHeld
    \/ DoSetHeld

SpecHeld == Init /\ [][NextHeld]_vars

\* C30: a write into the slice GetBinary returned changes nothing of the
\* set, hence no result of a later Get; a Set on the set changes no slice
\* and no string that GetBinary, GetString, GetJSON or GetDateTimeString
\* returned before.
C30_FreshCopy ==
    [][/\ last'.op = "WriteHeld" => p' = p
       /\ last'.op = "Set" => held' = held]_vars

\* The caller holds the slice GetBinary returned, and a Set has since
\* stored another value in the column.
C30_Witness ==
    /\ held.kind = "[]byte" /\ held.val = <<65>>
    /\ last.op = "Set" /\ last.out = Ok /\ last.col = held.col
    /\ Get(schema, p, held.col, "Binary").ret = << <<66>> >>

(***************************************************************************)
(* Props.String.  The text is a sequence of tokens: the literals written   *)
(* with WriteString and WriteByte, and one token for each Fprintf of       *)
(* "%s:%v", holding the name and the value printed.  props.go declares     *)
(* the method with no body; the one of errors.go is modelled.              *)
(***************************************************************************)
packageName == "props: "

Lit(s) == [lit |-> s, name |-> <<>>, value |-> NoRet]

Pair(name, value) == [lit |-> "%s:%v", name |-> name, value |-> value]

\* One pass of the loop of String over column i, r being what GetValue(i)
\* has returned: an error skips the column, a panic ends the call.
RECURSIVE stringFrom(_, _, _, _, _)
stringColumn(sch, i, printed, text, r) ==
    IF r.out = "panic" THEN [P |-> r.P, out |-> "panic", ret |-> NoRet]
    ELSE IF r.out # Ok THEN stringFrom(sch, r.P, i + 1, printed, text)
    ELSE stringFrom(sch, r.P, i + 1, TRUE,
                    text \o (IF printed THEN <<Lit(",")>> ELSE <<>>)
                         \o <<Pair(sch[i + 1].name, r.ret)>>)

\* The loop of String from column i on.
stringFrom(sch, P, i, printed, text) ==
    IF i < numColumns(sch)
    THEN stringColumn(sch, i, printed, text, GetValue(sch, P, i, "errors.go"))
    ELSE [P |-> P, out |-> Ok, ret |-> text \o <<Lit("}")>>]

\* Props.String: [P, out, ret]
String(sch, P) ==
    stringFrom(sch, P, 0, FALSE, <<Lit(packageName), Lit("Props{")>>)

DoString ==
    /\ Running
    /\ Got(String(schema, p),
           [Call("String", 0, Nil, NoRet, Ok, NoRet) EXCEPT !.build = "errors.go"])

NextString ==
    \/ DoString
    \/ DoHas

SpecString == Init /\ [][NextString]_vars

\* The columns that have a value in P, and the k-th of them in ascending
\* order of index.
StoredColumns(P) == {c \in 0..(Len(schema) - 1) : Stored(P, c)}

NthStored(P, k) ==
    CHOOSE c \in StoredColumns(P) :
      Cardinality({d \in StoredColumns(P) : d < c}) = k - 1

\* text is Props{name1:v1,name2:v2,...}: one name:value for each column of
\* P that has a value, in ascending order of index, with commas between.
Rendered(text, P) ==
    LET n == Cardinality(StoredColumns(P)) IN
    /\ Len(text) = (IF n = 0 THEN 2 ELSE 2 * n + 1)
    /\ text[1] = Lit("Props{")
    /\ text[Len(text)] = Lit("}")
    /\ \A k \in 1..n :
         /\ text[2 * k].lit = "%s:%v"
         /\ text[2 * k].name = schema[NthStored(P, k) + 1].name
         /\ text[2 * k].value = GetValue(schema, P, NthStored(P, k), "errors.go").ret
         /\ k > 1 => text[2 * k - 1] = Lit(",")

\* C31: String() returns Props{name1:v1,name2:v2,...}, listing exactly the
\* columns that have a stored value, each once as name:value, in ascending
\* order of column index with commas between, and no column without a value.
C31_String == last.op = "String" => (last.out = Ok /\ Rendered(last.ret, p))

\* What holds: a call of String that returns has written packageName and
\* then the text of the claim.
StringAfterPackageName ==
    (last.op = "String" /\ last.out = Ok) =>
      /\ last.ret[1] = Lit(packageName)
      /\ Rendered(Tail(last.ret), p)

(***************************************************************************)
(* Schema.Index called by two property sets that share one Schema, step   *)
(* by step.  Nothing orders the calls: the load of s.name2Index, the       *)
(* store of the new map and each assignment to the map are steps of       *)
(* their own.  An assignment to a map sets the flag writing when it       *)
(* begins and clears it when it ends; finding the flag in the wrong state  *)
(* ends the program with a fatal error, and the flag being read without    *)
(* synchronisation, an assignment may also begin unnoticed.                *)
(***************************************************************************)
RaceSchemas ==
    {Renamed(MinCols, 1, 1), Renamed(name2IndexThreshold, 1, 1),
     Renamed(name2IndexThreshold, 2, 1)}

\* The names looked up: of the first column, of the last, and of no column.
RaceNames == {NameOf(1), NameOf(name2IndexThreshold), NameOf(MaxCols + 1)}

InitRace ==
    /\ schema \in RaceSchemas
    /\ ext = <<>>
    /\ Constructed("NewProps", <<schema>>, NewPropsOf(<<schema>>))
    /\ q = PropsFromFlat(ext)
    /\ schemaName2Index = NilMap
    /\ held = NoHeld
    /\ indexing = NoIndexing

Alive == last.out # "fatal"

\* The field s.name2Index as x has it.
FieldOf(x) ==
    IF x.ref = 0 THEN NilMap ELSE [made |-> TRUE, at |-> x.maps[x.ref].at]

\* The calls and maps become x.
Racing(x) ==
    /\ indexing' = x
    /\ schemaName2Index' = FieldOf(x)
    /\ UNCHANGED <<schema, ext, p, q, held>>

\* The call Index(name) of caller c has ended with out, returning r =
\* [col, ok]; how tells the branch it took.
IndexCall(c, name, how, out, r) ==
    [Call("Index", 0, how, <<c>>, out, <<r.col, r.ok>>) EXCEPT !.name = name]

NoIndex == [col |-> 0, ok |-> FALSE]

\* index, ok = s.name2Index[name]
Lookup(at, name) ==
    [col |-> IF name \in DOMAIN at THEN at[name] ELSE 0, ok |-> name \in DOMAIN at]

\* Caller c enters Index(name) and loads s.name2Index: it reads a map
\* that is there, scans a short schema, or goes on to make the map.
IndexEnter(c) ==
    /\ Alive
    /\ indexing.calls[c].pc = "idle"
    /\ \E name \in RaceNames :
         IF indexing.ref # 0
         THEN /\ \/ last' = IndexCall(c, name, "map", Ok,
                                      Lookup(indexing.maps[indexing.ref].at, name))
                 \/ /\ indexing.maps[indexing.ref].writing
                    /\ last' = IndexCall(c, name, "map", "fatal", NoIndex)
              /\ Racing(indexing)
         ELSE IF Len(schema) < name2IndexThreshold
         THEN /\ last' = IndexCall(c, name, "scan", Ok, scan(schema, name, 0))
              /\ Racing(indexing)
         ELSE /\ Racing([indexing EXCEPT
                           !.calls[c] = [Idle EXCEPT !.pc = "make", !.name = name]])
              /\ UNCHANGED last

\* s.name2Index = make(map[string]int, len(s.cols))
IndexMake(c) ==
    /\ Alive
    /\ indexing.calls[c].pc = "make"
    /\ Racing([indexing EXCEPT
                 !.ref = c,
                 !.maps[c] = [NoMap EXCEPT !.made = TRUE],
                 !.calls[c].pc = "loop"])
    /\ UNCHANGED last

\* One pass of the loop up to the beginning of the assignment
\* s.name2Index[s.cols[i].Name] = i, which loads the field anew.
IndexAssign(c) ==
    LET call == indexing.calls[c]
        hit == schema[call.i + 1].name = call.name IN
    /\ Alive
    /\ call.pc = "loop"
    /\ call.i < Len(schema)
    /\ \/ /\ Racing([indexing EXCEPT
                       !.maps[indexing.ref].writing = TRUE,
                       !.calls[c] = [call EXCEPT
                                       !.pc = "assign",
                                       !.col = IF hit THEN call.i ELSE call.col,
                                       !.ok = call.ok \/ hit,
                                       !.m = indexing.ref]])
          /\ UNCHANGED last
       \/ /\ indexing.maps[indexing.ref].writing
          /\ last' = IndexCall(c, call.name, "make", "fatal", NoIndex)
          /\ Racing(indexing)

\* The end of the assignment, and i++.
IndexAssigned(c) ==
    LET call == indexing.calls[c] IN
    /\ Alive
    /\ call.pc = "assign"
    /\ IF indexing.maps[call.m].writing
       THEN /\ Racing([indexing EXCEPT
                         !.maps[call.m].writing = FALSE,
                         !.maps[call.m].at =
                            Put(indexing.maps[call.m].at, schema[call.i + 1].name, call.i),
                         !.calls[c].pc = "loop",
                         !.calls[c].i = call.i + 1])
            /\ UNCHANGED last
       ELSE /\ last' = IndexCall(c, call.name, "make", "fatal", NoIndex)
            /\ Racing(indexing)

\* The loop is over: return.
IndexReturn(c) ==
    LET call == indexing.calls[c] IN
    /\ Alive
    /\ call.pc = "loop"
    /\ call.i >= Len(schema)
    /\ last' = IndexCall(c, call.name, "make", Ok, call)
    /\ Racing([indexing EXCEPT !.calls[c] = Idle])

NextRace ==
    \/ \E c \in Callers : IndexEnter(c)
    \/ \E c \in Callers : IndexMake(c)
    \/ \E c \in Callers : IndexAssign(c)
    \/ \E c \in Callers : IndexAssigned(c)
    \/ \E c \in Callers : IndexReturn(c)

SpecRace == InitRace /\ [][NextRace]_vars

\* Each of the two callers has made a map: each call found the field nil.
BothMade == \A c \in Callers : indexing.maps[c].made

\* Every column name is in the map at, with the index of the column (of
\* the last column of that name).
WholeMap(at) ==
    /\ DOMAIN at = {schema[k].name : k \in 1..Len(schema)}
    /\ \A n \in DOMAIN at : at[n] = SetMax(Named(schema, n))

NoCallRuns == \A c \in Callers : indexing.calls[c].pc = "idle"

\* C32: when two property sets share one Schema of 6 or more columns and
\* their Index calls interleave so that each makes the name-to-index map,
\* every Index call returns the index of its name and whether it was found,
\* and the map that remains when the calls are over maps every column name
\* to its index.
C32_SharedIndex ==
    BothMade =>
      /\ last.op = "Index" =>
           /\ last.out = Ok
           /\ last.ret = <<Index(schema, last.name).col, Index(schema, last.name).ok>>
      /\ NoCallRuns => WholeMap(schemaName2Index.at)

\* What holds: a call that has made the map and returned has the right
\* result, and with no call running the map that remains is whole.
MakersRight ==
    /\ (last.op = "Index" /\ last.out = Ok /\ last.acc \in {"make", "scan"}) =>
         last.ret = <<Index(schema, last.name).col, Index(schema, last.name).ok>>
    /\ (NoCallRuns /\ schemaName2Index.made) => WholeMap(schemaName2Index.at)

(***************************************************************************)
(* The build of the offset table in Props.index2Index, one pass of the     *)
(* loop at a time.  The call in progress is in last: arg holds the read    *)
(* position i and the number of passes made, out is "loop" while the loop  *)
(* runs and "break" when it was left by break.                             *)
(***************************************************************************)
\* The pass that does not move past the index of a column the schema does
\* not have (continue before i += SizeUint16).
lookupPassStay(sch, d, i, lk) ==
    IF GetUint16(d, i) >= numColumns(sch)
    THEN [i |-> i, lk |-> lk, out |-> "loop"]
    ELSE IF sizeOfValue(sch, d, GetUint16(d, i), i + SizeUint16).err # Nil
            \/ i + SizeUint16 + sizeOfValue(sch, d, GetUint16(d, i), i + SizeUint16).sz
                 > Len(d)
    THEN [i |-> i + SizeUint16, lk |-> lk, out |-> "break"]
    ELSE [i |-> i + SizeUint16
                  + sizeOfValue(sch, d, GetUint16(d, i), i + SizeUint16).sz,
          lk |-> [lk EXCEPT ![GetUint16(d, i) + 1] = i + SizeUint16],
          out |-> "loop"]

\* The body of the loop of Props.index2Index, entered with the read
\* position i < len - 2 and the offset table lk: [i, lk, out].
lookupPass(sch, d, i, lk) ==
    IF GetUint16(d, i) >= numColumns(sch)
    THEN [i |-> i + SizeUint16, lk |-> lk, out |-> "loop"]
    ELSE IF sizeOfValue(sch, d, GetUint16(d, i), i + SizeUint16).err # Nil
            \/ i + SizeUint16 + sizeOfValue(sch, d, GetUint16(d, i), i + SizeUint16).sz
                 > Len(d)
    THEN [i |-> i + SizeUint16, lk |-> lk, out |-> "break"]
    ELSE [i |-> i + SizeUint16
                  + sizeOfValue(sch, d, GetUint16(d, i), i + SizeUint16).sz,
          lk |-> [lk EXCEPT ![GetUint16(d, i) + 1] = i + SizeUint16],
          out |-> "loop"]

\* The call in progress is left as s = [i, lk, out] after one more pass.
Passed(s) ==
    /\ p' = [p EXCEPT !.lookup = s.lk]
    /\ last' = [last EXCEPT !.out = s.out, !.arg = <<s.i, last.arg[2] + 1>>]
    /\ UNCHANGED <<schema, ext, q, schemaName2Index, held, indexing>>

\* index2Index(col) on an immutable set without offset table:
\* p.lookup = make([]int, n); i := 0
LoopEnter ==
    /\ last.op = "PropsFromFlat"
    /\ p.lookup = NilLookup /\ ~p.mutable
    /\ \E col \in 0..(numColumns(schema) - 1) :
         /\ p' = [p EXCEPT !.lookup = [k \in 1..numColumns(schema) |-> 0]]
         /\ last' = Call("index2Index", col, Nil, <<0, 0>>, "loop", NoRet)
    /\ UNCHANGED <<schema, ext, q, schemaName2Index, held, indexing>>

\* One pass of the loop.
LoopPass ==
    /\ last.op = "index2Index" /\ last.out = "loop"
    /\ last.arg[1] < Len(p.data) - SizeUint16
    /\ Passed(lookupPass(schema, p.data, last.arg[1], p.lookup))

\* return p.lookup[col], nil
LoopReturn ==
    /\ last.op = "index2Index"
    /\ \/ last.out = "break"
       \/ last.out = "loop" /\ ~(last.arg[1] < Len(p.data) - SizeUint16)
    /\ last' = [last EXCEPT !.out = Ok, !.ret = <<p.lookup[last.col + 1]>>]
    /\ UNCHANGED <<schema, ext, p, q, schemaName2Index, held, indexing>>

NextLoop ==
    \/ LoopEnter
    \/ LoopPass
    \/ LoopReturn

SpecLoop == InitParse /\ [][NextLoop]_vars

\* A call that has begun goes on: every step of it is taken in the end.
SpecLoopFair == SpecLoop /\ WF_vars(LoopPass) /\ WF_vars(LoopReturn)

\* C33: the build of the offset table terminates for every byte slice and
\* every schema: every pass of the loop moves the read position on by at
\* least 2 bytes, so there are no more passes than payload bytes, and a
\* call that has begun returns, also on payloads with the index of no
\* column or with a corrupt length prefix.
C33_Terminates ==
    /\ [][(last.op = "index2Index" /\ last'.op = "index2Index"
             /\ last'.arg # last.arg) =>
            /\ last'.arg[1] >= last.arg[1] + SizeUint16
            /\ last'.arg[2] = last.arg[2] + 1
            /\ last'.arg[2] * SizeUint16 <= Len(p.data)]_vars
    /\ (last.op = "index2Index") ~> (last.op = "index2Index" /\ last.out = Ok)

\* The loop has passed the index of no column, been left by break on a
\* length prefix that is corrupt, and returned.
C33_Witness ==
    /\ last.op = "index2Index" /\ last.out = Ok
    /\ last.arg[2] >= 2
    /\ \E k \in 0..(Len(p.data) - 2) :
         k % 2 = 0 /\ k < last.arg[1] /\ GetUint16(p.data, k) >= numColumns(schema)
    /\ sizeOfValue(schema, p.data, GetUint16(p.data, last.arg[1] - SizeUint16),
                   last.arg[1]).err = "errStringSizeCorrupt"

\* The table the passes leave is the table of index2Index.
PassesBuild ==
    (last.op = "index2Index" /\ last.out = Ok) =>
      p = index2Index(schema, [p EXCEPT !.lookup = NilLookup], last.col).P

(***************************************************************************)
(* Reads among writes: Get, GetValue, Has and String on a set that Set     *)
(* may have written.                                                       *)
(***************************************************************************)
NextRead ==
    \/ DoGet
    \/ DoGetValue
    \/ DoHas
    \/ DoString
    \/ DoSet

SpecRead == Init /\ [][NextRead]_vars

\* The call c, a read, made on P: <<out, ret>>.
ReadAgain(P, c) ==
    CASE c.op = "Get" ->
           <<Get(schema, P, c.col, c.acc).out, Get(schema, P, c.col, c.acc).ret>>
      [] c.op = "GetValue" ->
           <<GetValue(schema, P, c.col, c.build).out,
             GetValue(schema, P, c.col, c.build).ret>>
      [] c.op = "Has" -> <<Ok, <<Has(schema, P, c.col).ret>> >>
      [] c.op = "String" -> <<String(schema, P).out, String(schema, P).ret>>

\* C34: no Get, GetValue, Has or String changes the payload bytes or what
\* any later Get or Has on the same set returns; all a read may change is
\* the offset table, built once; and the same read made again returns what
\* the first returned.
C34_ReadsPure ==
    [][last'.op \in {"Get", "GetValue", "Has", "String"} =>
         /\ p'.data = p.data
         /\ ext' = ext
         /\ p' = p \/ (p.lookup = NilLookup /\ p' = Indexed0(p))
         /\ p' = p \/ Reads(p') = Reads(p)
         /\ ReadAgain(p', last') = <<last'.out, last'.ret>>]_vars

\* A read has built the offset table of a set that holds a value, and
\* returned the value.
C34_Witness ==
    /\ last.op \in {"Get", "GetValue"} /\ last.out = Ok
    /\ p.lookup # NilLookup /\ ~p.mutable
    /\ Stored(p, last.col)

(***************************************************************************)
(* The dynamic accessors back to back: SetValue is given the value that    *)
(* GetValue has just returned.                                             *)
(***************************************************************************)
DynSchemas ==
    { <<Col(NameA, "Json"), Col(NameBB, "Int")>>,
      <<Col(NameBB, "Int"), Col(NameBC, "DateTime")>>,
      <<Col(NameA, "String"), Col(NameBB, "Bool")>>,
      <<Col(NameA, "Short"), Col(NameBB, "Binary")>> }

InitDyn ==
    /\ schema \in DynSchemas
    /\ ext \in Payloads(schema, MaxLen) \cup TimePayloads(schema)
    /\ Constructed("PropsFromFlat", <<schema>>,
                   PropsFromFlatOf(<<schema>>, ext))
    /\ q = PropsFromFlat(ext)
    /\ schemaName2Index = NilMap
    /\ held = NoHeld
    /\ indexing = NoIndexing

\* The Go type of the value the typed getter of column type t returns.
GoType(t) ==
    CASE t = "Bool" -> "bool"
      [] t = "Byte" -> "int8"
      [] t = "UByte" -> "uint8"
      [] t = "Short" -> "int16"
      [] t = "UShort" -> "uint16"
      [] t = "Int" -> "int32"
      [] t = "UInt" -> "uint32"
      [] t = "Long" -> "int64"
      [] t = "ULong" -> "uint64"
      [] t = "Float" -> "float32"
      [] t = "Double" -> "float64"
      [] t \in {"String", "Json"} -> "string"
      [] t = "Binary" -> "[]byte"
      [] t = "DateTime" -> "time.Time"

\* The dynamic type of the value GetValue(index) returns on P: that of
\* the typed getter, and string for the text of a DateTime column that
\* does not parse.
valueType(sch, P, index) ==
    IF columnType(sch, index) = "DateTime"
         /\ GetDateTime(sch, P, index).out = "ParseError"
    THEN "string"
    ELSE GoType(columnType(sch, index))

\* SetValue(c, x) with x the value the GetValue(c) before has returned.
DoSetValueBack ==
    /\ Running
    /\ last.op = "GetValue" /\ last.out = Ok
    /\ Done(SetValue(schema, p, last.col, valueType(schema, p, last.col),
                     last.ret[1]),
            [Call("SetValue", last.col, valueType(schema, p, last.col),
                  last.ret, Ok, NoRet) EXCEPT !.build = last.build])

NextDyn ==
    \/ DoGetValue
    \/ DoSetValueBack

SpecDyn == InitDyn /\ [][NextDyn]_vars

\* The step is SetValue(c, x), x being what GetValue(c) has returned for a
\* column c that has a value.
GivenBack ==
    /\ last.op = "GetValue" /\ last.out = Ok
    /\ last'.op = "SetValue" /\ last'.col = last.col /\ last'.arg = last.ret
    /\ Stored(p, last.col)

\* C35: for every column c that has a value, of any column type,
\* SetValue(c, x) with x the value GetValue(c) returned succeeds, and
\* GetValue(c) returns x afterwards; also for Json columns and for DateTime
\* columns whose text does not parse as RFC 3339.
C35_DynamicRoundTrip ==
    [][GivenBack =>
         /\ last'.out = Ok
         /\ GetValue(schema, p', last.col, last.build).out = Ok
         /\ GetValue(schema, p', last.col, last.build).ret = last.ret]_vars

\* What holds: the same of every value that GetValue does not return as a
\* string from a column of another type than String.
DynamicButText ==
    [][(GivenBack /\ (last'.acc = "string" => columnType(schema, last.col) = "String")) =>
         /\ last'.out = Ok
         /\ GetValue(schema, p', last.col, last.build).out = Ok
         /\ GetValue(schema, p', last.col, last.build).ret = last.ret]_vars

(***************************************************************************)
(* Header as a flatgeobuf.Schema.  The body of ColumnsLength is a call of  *)
(* ColumnsLength on the same receiver, the body of Columns a call of       *)
(* Columns with the same arguments: a frame returns only what the frame    *)
(* it has called returns.  last.arg holds the number of frames of the      *)
(* call in progress; the stack of a goroutine is limited, here to          *)
(* MaxStack frames, and running out of it is a fatal error.                *)
(***************************************************************************)
MaxStack == 4

InitHeader ==
    /\ schema \in Schemas \cup IndexSchemas
    /\ ext = <<>>
    /\ Constructed("NewProps", <<schema>>, NewPropsOf(<<schema>>))
    /\ q = PropsFromFlat(ext)
    /\ schemaName2Index = NilMap
    /\ held = NoHeld
    /\ indexing = NoIndexing

HeaderOps == {"ColumnsLength", "Columns"}

\* The caller's frame of a call of op on the Header.
HeaderCalled(op, j) ==
    /\ last.op \notin HeaderOps
    /\ last' = Call(op, j, Nil, <<1>>, "call", NoRet)
    /\ UNCHANGED <<schema, ext, p, q, schemaName2Index, held, indexing>>

\* hdr.ColumnsLength() is called.
HeaderColumnsLength == HeaderCalled("ColumnsLength", 0)

\* hdr.Columns(obj, j) is called.
HeaderColumns == \E j \in Indexes(schema) : HeaderCalled("Columns", j)

\* The innermost frame executes its body: return hdr.ColumnsLength(), or
\* return hdr.Columns(obj, j).
HeaderBody ==
    /\ last.op \in HeaderOps
    /\ last.out = "call"
    /\ last' = IF last.arg[1] < MaxStack
               THEN [last EXCEPT !.arg = <<last.arg[1] + 1>>]
               ELSE [last EXCEPT !.out = "fatal"]
    /\ UNCHANGED <<schema, ext, p, q, schemaName2Index, held, indexing>>

NextHeader ==
    \/ HeaderColumnsLength
    \/ HeaderColumns
    \/ HeaderBody

SpecHeader == InitHeader /\ [][NextHeader]_vars

\* A frame that can run runs.
SpecHeaderFair == SpecHeader /\ WF_vars(HeaderBody)

\* C36: the calls of Header as a schema terminate: ColumnsLength() returns
\* the number of columns of the header's Schema and Columns(obj, j) returns
\* whether j is in range, each after a bounded number of steps.
C36_HeaderSchema ==
    /\ (last.op = "ColumnsLength")
         ~> (last.op = "ColumnsLength" /\ last.out = Ok
               /\ last.ret = <<Len(schema)>>)
    /\ (last.op = "Columns")
         ~> (last.op = "Columns" /\ last.out = Ok
               /\ last.ret = <<InRange(last.col)>>)

\* What holds: a call of either method never returns; it takes frame after
\* frame until the stack is used up.
HeaderNeverReturns ==
    /\ [](last.op \in HeaderOps => last.out \in {"call", "fatal"})
    /\ (last.op \in HeaderOps) ~> (last.out = "fatal")

(***************************************************************************)
(* Translation of Column and CRS to and from their FlatBuffers tables.     *)
(* A table is the map from the slots that were written to their values.    *)
(* A scalar equal to the default of its slot is not written, and reading   *)
(* a slot that was not written gives the default (no bytes, for a string). *)
(* A slot written twice keeps what was written last.                       *)
(***************************************************************************)
NoTable == [s \in {} |-> 0]

\* The defaults of the slots of flat.Column and flat.Crs.
Default(slot) ==
    CASE slot \in {"width", "precision", "scale"} -> -1
      [] slot = "code" -> 0
      [] slot = "type" -> ZeroColumnType
      [] slot = "nullable" -> TRUE
      [] slot \in {"unique", "primary_key"} -> FALSE
      [] OTHER -> <<>>

\* flat.ColumnAdd..., flat.CrsAdd...
Add(table, slot, v) == IF v = Default(slot) THEN table ELSE Put(table, slot, v)

\* The accessors of flat.Column and flat.Crs.
Read(table, slot) == IF slot \in DOMAIN table THEN table[slot] ELSE Default(slot)

\* if s != "" { offset := b.CreateString(s); defer Add(b, offset) }
AddString(table, slot, s) == IF s = <<>> THEN table ELSE Put(table, slot, s)

\* Column.ToBuilder: the deferred calls run after ColumnStart, the last
\* deferred first.
ColumnToBuilder(c) ==
    Add(Add(Add(Add(Put(
        AddString(AddString(AddString(NoTable,
            "metadata", c.Metadata),
            "description", c.Description),
            "title", c.Title),
        "name", c.Name),
        "type", c.Type),
        "nullable", ~c.Required),
        "unique", c.Unique),
        "primary_key", c.PrimaryKey)

\* ColumnFromFlat
ColumnFromFlat(obj) ==
    [Name |-> Read(obj, "name"),
     Type |-> Read(obj, "type"),
     Title |-> Read(obj, "title"),
     Description |-> Read(obj, "description"),
     Width |-> Read(obj, "width"),
     Precision |-> Read(obj, "precision"),
     Scale |-> Read(obj, "scale"),
     Required |-> ~Read(obj, "nullable"),
     Unique |-> Read(obj, "unique"),
     PrimaryKey |-> Read(obj, "primary_key"),
     Metadata |-> Read(obj, "metadata")]

\* The Column values translated.
Texts == {<<>>, <<84>>}

Widths == {-1, 0}

Columns ==
    [Name : {NameA, NameBB}, Type : {"Byte", "String"}, Title : Texts,
     Description : {<<68>>}, Width : Widths, Precision : {3}, Scale : {-1},
     Required : BOOLEAN, Unique : BOOLEAN, PrimaryKey : BOOLEAN,
     Metadata : Texts]

InitFlat ==
    /\ schema = NilSchema
    /\ ext = <<>>
    /\ Constructed("NewProps", NilSchema, NewPropsOf(NilSchema))
    /\ q = PropsFromFlat(ext)
    /\ schemaName2Index = NilMap
    /\ held = NoHeld
    /\ indexing = NoIndexing

\* A call that touches no property set has returned ret.
Translated(op, arg, ret) ==
    /\ last' = Call(op, 0, Nil, <<arg>>, Ok, <<ret>>)
    /\ UNCHANGED <<schema, ext, p, q, schemaName2Index, held, indexing>>

DoColumnToBuilder ==
    \E c \in Columns : Translated("Column.ToBuilder", c, ColumnToBuilder(c))

\* The table just written is decoded.
DoColumnFromFlat ==
    /\ last.op = "Column.ToBuilder"
    /\ Translated("ColumnFromFlat", last.ret[1], ColumnFromFlat(last.ret[1]))

NextColumn ==
    \/ DoColumnToBuilder
    \/ DoColumnFromFlat

SpecColumn == InitFlat /\ [][NextColumn]_vars

\* The step decodes the table that the call before has written.
Decodes(write, read) ==
    last.op = write /\ last'.op = read /\ last'.arg = last.ret

\* C37: for every Column c, ColumnFromFlat of the table written by
\* c.ToBuilder is a Column equal to c in every attribute: name, type, title,
\* description, metadata, width, precision, scale, required, unique and
\* primary key; required = true is written as nullable = false and read
\* back as required = true.
C37_ColumnRoundTrip ==
    [][Decodes("Column.ToBuilder", "ColumnFromFlat") =>
         /\ last'.ret = last.arg
         /\ last.arg[1].Required => ~Read(last.ret[1], "nullable")]_vars

\* What holds: every attribute but width, precision and scale comes back,
\* and these three come back as the default of their slots.
ColumnButWidth ==
    [][Decodes("Column.ToBuilder", "ColumnFromFlat") =>
         /\ last'.ret[1] = [last.arg[1] EXCEPT !.Width = Default("width"),
                                               !.Precision = Default("precision"),
                                               !.Scale = Default("scale")]
         /\ last.arg[1].Required = ~Read(last.ret[1], "nullable")]_vars

\* CRS.ToBuilder: the deferred calls run after CrsStart, the last deferred
\* first; the text of CodeString is added with flat.CrsAddWkt.
CrsToBuilder(crs) ==
    AddString(Add(AddString(AddString(AddString(AddString(NoTable,
        "wkt", crs.CodeString),
        "wkt", crs.WKT),
        "description", crs.Description),
        "name", crs.Name),
        "code", crs.Code),
        "org", crs.Org)

\* crs.FromFlat
CrsFromFlat(crs) ==
    [Org |-> Read(crs, "org"),
     Code |-> Read(crs, "code"),
     Name |-> Read(crs, "name"),
     Description |-> Read(crs, "description"),
     WKT |-> Read(crs, "wkt"),
     CodeString |-> Read(crs, "code_string")]

\* The CRS values translated.
CRSs ==
    [Org : {<<>>, <<79>>}, Code : {0, 3857, 4326}, Name : Texts,
     Description : {<<>>, <<68>>}, WKT : {<<>>, <<87>>},
     CodeString : {<<>>, <<67>>}]

DoCrsToBuilder ==
    \E crs \in CRSs : Translated("CRS.ToBuilder", crs, CrsToBuilder(crs))

\* The table just written is decoded.
DoCrsFromFlat ==
    /\ last.op = "CRS.ToBuilder"
    /\ Translated("crs.FromFlat", last.ret[1], CrsFromFlat(last.ret[1]))

NextCrs ==
    \/ DoCrsToBuilder
    \/ DoCrsFromFlat

SpecCrs == InitFlat /\ [][NextCrs]_vars

\* C38: for every CRS value, crs.FromFlat of the table written by
\* CRS.ToBuilder is a CRS equal to the original in all six fields: Org,
\* Code, Name, Description, WKT and CodeString; each field is written to
\* its own slot of the table and no field overwrites another.
C38_CrsRoundTrip ==
    [][Decodes("CRS.ToBuilder", "crs.FromFlat") =>
         /\ last'.ret = last.arg
         /\ Read(last.ret[1], "wkt") = last.arg[1].WKT
         /\ Read(last.ret[1], "code_string") = last.arg[1].CodeString]_vars

\* What holds: Org, Code, Name and Description come back; CodeString comes
\* back empty, and WKT comes back unless it is empty and CodeString is not,
\* when the text of CodeString comes back in its place.
CrsButCodeString ==
    [][Decodes("CRS.ToBuilder", "crs.FromFlat") =>
         last'.ret[1] = [last.arg[1] EXCEPT
                           !.CodeString = <<>>,
                           !.WKT = IF last.arg[1].WKT = <<>>
                                   THEN last.arg[1].CodeString
                                   ELSE last.arg[1].WKT]]_vars

=============================================================================
